---------------------------- MODULE Spec2Model ----------------------------
(***************************************************************************)
(* A model of the permission gateway of mysql-mcp-server-secure            *)
(* (src/src/index.ts).                                                     *)
(*                                                                         *)
(* Text (SQL, glob patterns, names) is a sequence of one-character         *)
(* strings, so that trimming, upper-casing, splitting, the regular         *)
(* expressions and the glob matcher are computed character by character.   *)
(* The single JavaScript thread is the variable running: a handler runs its  *)
(* synchronous segment without interleaving and gives the thread up at     *)
(* every await.                                                            *)
(***************************************************************************)
EXTENDS Integers, Sequences, FiniteSets, TLC

(***************************************************************************)
(* Characters and string primitives                                        *)
(***************************************************************************)

LowerLetters ==
    <<"a", "b", "c", "d", "e", "f", "g", "h", "i", "j", "k", "l", "m",
      "n", "o", "p", "q", "r", "s", "t", "u", "v", "w", "x", "y", "z">>

UpperLetters ==
    <<"A", "B", "C", "D", "E", "F", "G", "H", "I", "J", "K", "L", "M",
      "N", "O", "P", "Q", "R", "S", "T", "U", "V", "W", "X", "Y", "Z">>

\* the back-quote and the single quote, each one character of a text
BackQuote == "backquote"

SingleQuote == "quote"

Digits == {"0", "1", "2", "3", "4", "5", "6", "7", "8", "9"}

Range(f) == {f[i] : i \in DOMAIN f}

MinOf(S) == CHOOSE x \in S : \A y \in S : x <= y

MaxOf(S) == CHOOSE x \in S : \A y \in S : x >= y

\* String.prototype.toUpperCase, one character
ToUpperChar(c) ==
    IF \E i \in 1..26 : LowerLetters[i] = c
    THEN UpperLetters[CHOOSE i \in 1..26 : LowerLetters[i] = c]
    ELSE c

ToUpperCase(s) == [i \in 1..Len(s) |-> ToUpperChar(s[i])]

\* the regular expression class \s and the characters trim() removes
IsSpace(c) == c \in {" ", "\t", "\n"}

\* the regular expression class \w
IsWordChar(c) ==
    \/ c \in Range(LowerLetters)
    \/ c \in Range(UpperLetters)
    \/ c \in Digits
    \/ c = "_"

\* the regular expression class of a back-quote or \w
IsIdentChar(c) == IsWordChar(c) \/ c = BackQuote

\* String.prototype.trim
Trim(s) ==
    LET keep == {i \in 1..Len(s) : ~IsSpace(s[i])}
    IN  IF keep = {} THEN <<>> ELSE SubSeq(s, MinOf(keep), MaxOf(keep))

\* String.prototype.includes, for a one-character needle
Includes(s, c) == \E i \in 1..Len(s) : s[i] = c

\* String.prototype.split on a one-character separator
RECURSIVE Split(_, _)
Split(s, sep) ==
    LET at == {i \in 1..Len(s) : s[i] = sep}
    IN  IF at = {} THEN <<s>>
        ELSE <<SubSeq(s, 1, MinOf(at) - 1)>>
             \o Split(SubSeq(s, MinOf(at) + 1, Len(s)), sep)

\* Array.prototype.includes
ListIncludes(list, x) == \E i \in 1..Len(list) : list[i] = x

\* raw.replace(/\s+/g, "")
StripSpaces(s) == SelectSeq(s, LAMBDA c : ~IsSpace(c))

\* p.replace of every back-quote and single quote by nothing
StripQuotes(s) == SelectSeq(s, LAMBDA c : c \notin {BackQuote, SingleQuote})

\* s starts with w at index from (1-based), compared case-insensitively
MatchesWordAt(s, from, w) ==
    /\ from + Len(w) - 1 <= Len(s)
    /\ \A i \in 1..Len(w) : ToUpperChar(s[from + i - 1]) = ToUpperChar(w[i])

\* the index after the longest run of white space from index from (\s* and \s+)
SpaceRunEnd(s, from) ==
    LET stop == {i \in from..Len(s) : ~IsSpace(s[i])}
    IN  IF stop = {} THEN Len(s) + 1 ELSE MinOf(stop)

\* the index after the longest run of identifier characters from index from
IdentRunEnd(s, from) ==
    LET stop == {i \in from..Len(s) : ~IsIdentChar(s[i])}
    IN  IF stop = {} THEN Len(s) + 1 ELSE MinOf(stop)

(***************************************************************************)
(* Literals of the source                                                  *)
(***************************************************************************)

\* the JavaScript value undefined (an absent argument, an absent configuration
\* field): no text, and distinct from every text, the empty one included
Undefined == <<"undefined">>

Star == <<"*">>

KW_SELECT == <<"S", "E", "L", "E", "C", "T">>
KW_INSERT == <<"I", "N", "S", "E", "R", "T">>
KW_UPDATE == <<"U", "P", "D", "A", "T", "E">>
KW_DELETE == <<"D", "E", "L", "E", "T", "E">>
KW_CREATE == <<"C", "R", "E", "A", "T", "E">>
KW_DROP == <<"D", "R", "O", "P">>
KW_ALTER == <<"A", "L", "T", "E", "R">>
KW_TRUNCATE == <<"T", "R", "U", "N", "C", "A", "T", "E">>
KW_REPLACE == <<"R", "E", "P", "L", "A", "C", "E">>
KW_CALL == <<"C", "A", "L", "L">>
KW_EXPLAIN == <<"E", "X", "P", "L", "A", "I", "N">>
KW_SHOW == <<"S", "H", "O", "W">>
KW_DESCRIBE == <<"D", "E", "S", "C", "R", "I", "B", "E">>
KW_USE == <<"U", "S", "E">>
KW_FROM == <<"F", "R", "O", "M">>
KW_JOIN == <<"J", "O", "I", "N">>
KW_INTO == <<"I", "N", "T", "O">>
KW_TABLE == <<"T", "A", "B", "L", "E">>

\* the statement type reported when no keyword matches
UNKNOWN == <<"U", "N", "K", "N", "O", "W", "N">>

\* the alternation of the statement-type regular expression, in its order
SqlTypeKeywords ==
    <<KW_SELECT, KW_INSERT, KW_UPDATE, KW_DELETE, KW_CREATE, KW_DROP, KW_ALTER,
      KW_TRUNCATE, KW_REPLACE, KW_CALL, KW_EXPLAIN, KW_SHOW, KW_DESCRIBE, KW_USE>>

\* the statement types the read-only gate lets through
ReadOnlySafeTypes == <<KW_SELECT, KW_EXPLAIN, KW_SHOW, KW_DESCRIBE>>

(***************************************************************************)
(* Statement classifier: validateSqlType                                   *)
(***************************************************************************)

\* a multi-statement test that takes any semicolon for a second statement
IsMultiStatementAnySemicolon(trimmedSql) == Includes(trimmedSql, ";")

\* trimmedSql.includes(";") && trimmedSql.split(";").filter(s => s.trim()).length > 1
IsMultiStatement(trimmedSql) ==
    /\ Includes(trimmedSql, ";")
    /\ Len(SelectSeq(Split(trimmedSql, ";"), LAMBDA s : Trim(s) # <<>>)) > 1

\* a detection that wants the keyword to end where the word ends
DetectSqlTypeWholeWord(trimmedSql) ==
    LET hits == {i \in 1..Len(SqlTypeKeywords) :
                    /\ Len(SqlTypeKeywords[i]) <= Len(trimmedSql)
                    /\ SubSeq(trimmedSql, 1, Len(SqlTypeKeywords[i])) = SqlTypeKeywords[i]
                    /\ Len(SqlTypeKeywords[i]) < Len(trimmedSql) =>
                          ~IsWordChar(trimmedSql[Len(SqlTypeKeywords[i]) + 1])}
    IN  IF hits = {} THEN UNKNOWN ELSE SqlTypeKeywords[MinOf(hits)]

\* trimmedSql.match(/^(SELECT|INSERT|...|USE)/), else UNKNOWN
DetectSqlType(trimmedSql) ==
    LET hits == {i \in 1..Len(SqlTypeKeywords) :
                    /\ Len(SqlTypeKeywords[i]) <= Len(trimmedSql)
                    /\ SubSeq(trimmedSql, 1, Len(SqlTypeKeywords[i])) = SqlTypeKeywords[i]}
    IN  IF hits = {} THEN UNKNOWN ELSE SqlTypeKeywords[MinOf(hits)]

ErrMultiStatement == [kind |-> "multi-statement"]

ErrSqlType(sqlType, allowed) ==
    [kind |-> "sql-type", sqlType |-> sqlType, allowed |-> allowed]

ErrReadOnly == [kind |-> "read-only"]

\* a classifier whose wildcard allow-list switches the read-only gate off
ValidateSqlTypeWildcardBeatsReadOnly(sql, permissionConfig) ==
    LET trimmedSql == ToUpperCase(Trim(sql))
        sqlType == DetectSqlType(trimmedSql)
    IN  IF ~permissionConfig.allowMultiStatement /\ IsMultiStatement(trimmedSql)
        THEN [valid |-> FALSE, error |-> ErrMultiStatement]
        ELSE IF ListIncludes(permissionConfig.allowedSqlTypes, Star)
        THEN [valid |-> TRUE, sqlType |-> sqlType]
        ELSE IF ~ListIncludes(permissionConfig.allowedSqlTypes, sqlType)
        THEN [valid |-> FALSE,
              error |-> ErrSqlType(sqlType, permissionConfig.allowedSqlTypes)]
        ELSE IF /\ permissionConfig.readOnly
                /\ ~ListIncludes(ReadOnlySafeTypes, sqlType)
        THEN [valid |-> FALSE, error |-> ErrReadOnly]
        ELSE [valid |-> TRUE, sqlType |-> sqlType]

\* a classifier that tests the allow-list before the multi-statement check
ValidateSqlTypeAllowListFirst(sql, permissionConfig) ==
    LET trimmedSql == ToUpperCase(Trim(sql))
        sqlType == DetectSqlType(trimmedSql)
    IN  IF /\ ~ListIncludes(permissionConfig.allowedSqlTypes, sqlType)
           /\ ~ListIncludes(permissionConfig.allowedSqlTypes, Star)
        THEN [valid |-> FALSE,
              error |-> ErrSqlType(sqlType, permissionConfig.allowedSqlTypes)]
        ELSE IF ~permissionConfig.allowMultiStatement /\ IsMultiStatement(trimmedSql)
        THEN [valid |-> FALSE, error |-> ErrMultiStatement]
        ELSE IF /\ permissionConfig.readOnly
                /\ ~ListIncludes(ReadOnlySafeTypes, sqlType)
        THEN [valid |-> FALSE, error |-> ErrReadOnly]
        ELSE [valid |-> TRUE, sqlType |-> sqlType]

\* a classifier that tests the read-only gate before the allow-list
ValidateSqlTypeReadOnlyFirst(sql, permissionConfig) ==
    LET trimmedSql == ToUpperCase(Trim(sql))
        sqlType == DetectSqlType(trimmedSql)
    IN  IF ~permissionConfig.allowMultiStatement /\ IsMultiStatement(trimmedSql)
        THEN [valid |-> FALSE, error |-> ErrMultiStatement]
        ELSE IF /\ permissionConfig.readOnly
                /\ ~ListIncludes(ReadOnlySafeTypes, sqlType)
        THEN [valid |-> FALSE, error |-> ErrReadOnly]
        ELSE IF /\ ~ListIncludes(permissionConfig.allowedSqlTypes, sqlType)
                /\ ~ListIncludes(permissionConfig.allowedSqlTypes, Star)
        THEN [valid |-> FALSE,
              error |-> ErrSqlType(sqlType, permissionConfig.allowedSqlTypes)]
        ELSE [valid |-> TRUE, sqlType |-> sqlType]

ValidateSqlType(sql, permissionConfig) ==
    LET trimmedSql == ToUpperCase(Trim(sql))
        sqlType == DetectSqlType(trimmedSql)
    IN  IF ~permissionConfig.allowMultiStatement /\ IsMultiStatement(trimmedSql)
        THEN [valid |-> FALSE, error |-> ErrMultiStatement]
        ELSE IF /\ ~ListIncludes(permissionConfig.allowedSqlTypes, sqlType)
                /\ ~ListIncludes(permissionConfig.allowedSqlTypes, Star)
        THEN [valid |-> FALSE,
              error |-> ErrSqlType(sqlType, permissionConfig.allowedSqlTypes)]
        ELSE IF /\ permissionConfig.readOnly
                /\ ~ListIncludes(ReadOnlySafeTypes, sqlType)
        THEN [valid |-> FALSE, error |-> ErrReadOnly]
        ELSE [valid |-> TRUE, sqlType |-> sqlType]

(***************************************************************************)
(* Pattern matcher: matchesPattern over minimatch                          *)
(***************************************************************************)

\* minimatch(text, pattern, { nocase: true }) for patterns made of literal
\* characters, * and ? and for names without a slash and without a leading dot
RECURSIVE Minimatch(_, _)
Minimatch(text, pattern) ==
    IF pattern = <<>> THEN text = <<>>
    ELSE IF Head(pattern) = "*"
    THEN \/ Minimatch(text, Tail(pattern))
         \/ text # <<>> /\ Minimatch(Tail(text), pattern)
    ELSE IF Head(pattern) = "?"
    THEN text # <<>> /\ Minimatch(Tail(text), Tail(pattern))
    ELSE /\ text # <<>>
         /\ ToUpperChar(Head(text)) = ToUpperChar(Head(pattern))
         /\ Minimatch(Tail(text), Tail(pattern))

\* a matcher that wants every pattern to match
MatchesPatternEvery(text, patterns) ==
    \A i \in 1..Len(patterns) :
        patterns[i] = Star \/ Minimatch(text, patterns[i])

MatchesPattern(text, patterns) ==
    \E i \in 1..Len(patterns) :
        patterns[i] = Star \/ Minimatch(text, patterns[i])

ErrDatabase(database) == [kind |-> "database", name |-> database]

ErrTable(tableName) == [kind |-> "table", name |-> tableName]

\* JavaScript truthiness of an optional string: undefined and the empty string are falsy
Truthy(x) == x # Undefined /\ x # <<>>

\* a || b on optional strings
OrElse(a, b) == IF Truthy(a) THEN a ELSE b

\* an access check that tests the database only
ValidateTableAccessDatabaseOnly(tableName, permissionConfig, database) ==
    IF Truthy(database) /\ ~MatchesPattern(database, permissionConfig.allowedDatabases)
    THEN [valid |-> FALSE, error |-> ErrDatabase(database)]
    ELSE [valid |-> TRUE]

ValidateTableAccess(tableName, permissionConfig, database) ==
    IF Truthy(database) /\ ~MatchesPattern(database, permissionConfig.allowedDatabases)
    THEN [valid |-> FALSE, error |-> ErrDatabase(database)]
    ELSE IF ~MatchesPattern(tableName, permissionConfig.tablePatterns)
    THEN [valid |-> FALSE, error |-> ErrTable(tableName)]
    ELSE [valid |-> TRUE]

(***************************************************************************)
(* Reference extractor: extractTableRefs                                   *)
(***************************************************************************)

\* the keyword words of the eight regular expressions, in the order of the array;
\* every word is followed by \s+ and the last by the identifier group
RefPatterns ==
    << <<KW_FROM>>, <<KW_JOIN>>, <<KW_UPDATE>>, <<KW_INSERT, KW_INTO>>,
       <<KW_CREATE, KW_TABLE>>, <<KW_DROP, KW_TABLE>>, <<KW_ALTER, KW_TABLE>>,
       <<KW_TRUNCATE, KW_TABLE>> >>

NoMatch == [ok |-> FALSE, end |-> 0, group |-> <<>>]

\* the capture group at index p: an identifier run, then greedily an optional
\* dot-qualified second identifier run with white space around the dot
MatchGroupAt(sql, p) ==
    LET idEnd == IdentRunEnd(sql, p)
        dotAt == SpaceRunEnd(sql, idEnd)
        id2At == SpaceRunEnd(sql, dotAt + 1)
        id2End == IdentRunEnd(sql, id2At)
    IN  IF idEnd = p THEN NoMatch
        ELSE IF dotAt <= Len(sql) /\ sql[dotAt] = "." /\ id2End > id2At
        THEN [ok |-> TRUE, end |-> id2End, group |-> SubSeq(sql, p, id2End - 1)]
        ELSE [ok |-> TRUE, end |-> idEnd, group |-> SubSeq(sql, p, idEnd - 1)]

\* one attempt of a regular expression at index p (flag i: any letter case)
RECURSIVE MatchAt(_, _, _)
MatchAt(sql, p, words) ==
    IF words = <<>> THEN MatchGroupAt(sql, p)
    ELSE LET afterWord == p + Len(Head(words))
             afterSpace == SpaceRunEnd(sql, afterWord)
         IN  IF MatchesWordAt(sql, p, Head(words)) /\ afterSpace > afterWord
             THEN MatchAt(sql, afterSpace, Tail(words))
             ELSE NoMatch

\* the capture groups of the successive pattern.exec(sql) calls of the while
\* loop (flag g: each search starts at lastIndex, where the last match ended)
RECURSIVE ExecAll(_, _, _)
ExecAll(sql, words, lastIndex) ==
    LET starts == {p \in lastIndex..Len(sql) : MatchAt(sql, p, words).ok}
    IN  IF starts = {} THEN <<>>
        ELSE LET m == MatchAt(sql, MinOf(starts), words)
             IN  <<m.group>> \o ExecAll(sql, words, m.end)

\* match[1] of every match, pattern by pattern (patterns.forEach)
RECURSIVE AllGroups(_, _)
AllGroups(sql, patterns) ==
    IF patterns = <<>> THEN <<>>
    ELSE ExecAll(sql, Head(patterns), 1) \o AllGroups(sql, Tail(patterns))

\* the parts of one match: white space removed, split on the dot, quotes removed
RefParts(group) ==
    LET raw == StripSpaces(group)
        split == Split(raw, ".")
    IN  [i \in 1..Len(split) |-> StripQuotes(split[i])]

NoRef == [database |-> Undefined, table |-> <<>>]

\* the TableRef of one match; NoRef (its table is empty) when the loop continues
RefOf(group) ==
    LET parts == RefParts(group)
    IN  IF Len(parts) = 1 THEN [database |-> Undefined, table |-> parts[1]]
        ELSE IF Len(parts) = 2 THEN [database |-> parts[1], table |-> parts[2]]
        ELSE NoRef

\* a collection that pushes every reference with a table, held already or not
RECURSIVE PushRefsAll(_, _)
PushRefsAll(refs, groups) ==
    IF groups = <<>> THEN refs
    ELSE LET ref == RefOf(Head(groups))
         IN  IF ref.table = <<>>
             THEN PushRefsAll(refs, Tail(groups))
             ELSE PushRefsAll(Append(refs, ref), Tail(groups))

\* refs.push(ref) unless the table is empty or refs already holds the pair
RECURSIVE PushRefs(_, _)
PushRefs(refs, groups) ==
    IF groups = <<>> THEN refs
    ELSE LET ref == RefOf(Head(groups))
         IN  IF \/ ref.table = <<>>
                \/ \E i \in 1..Len(refs) :
                      refs[i].table = ref.table /\ refs[i].database = ref.database
             THEN PushRefs(refs, Tail(groups))
             ELSE PushRefs(Append(refs, ref), Tail(groups))

ExtractTableRefs(sql) == PushRefs(<<>>, AllGroups(sql, RefPatterns))

(***************************************************************************)
(* The configuration, the names and the query texts of the model           *)
(***************************************************************************)

\* source names
N_prod ==
    <<"p", "r", "o", "d">>

N_star ==
    <<"s", "t", "a", "r">>

N_rw ==
    <<"r", "w">>

N_locked ==
    <<"l", "o", "c", "k", "e", "d">>

\* a source name that is not configured
N_nosuch ==
    <<"n", "o", "s", "u", "c", "h">>

\* a source argument of two blanks
N_blank ==
    <<" ", " ">>

\* database names
DB_production ==
    <<"p", "r", "o", "d", "u", "c", "t", "i", "o", "n", "_", "d", "b">>

DB_secret ==
    <<"s", "e", "c", "r", "e", "t", "_", "d", "b">>

\* table names
T_open_orders ==
    <<"o", "p", "e", "n", "_", "o", "r", "d", "e", "r", "s">>

T_secret_users ==
    <<"s", "e", "c", "r", "e", "t", "_", "u", "s", "e", "r", "s">>

T_log_1 ==
    <<"l", "o", "g", "_", "1">>

\* glob patterns: open_*, log_? and *_users
P_open ==
    <<"o", "p", "e", "n", "_", "*">>

P_log ==
    <<"l", "o", "g", "_", "?">>

P_users ==
    <<"*", "_", "u", "s", "e", "r", "s">>

\* SELECT 1
Q_Select1 ==
    <<"S", "E", "L", "E", "C", "T", " ", "1">>

\* SELECT * FROM open_orders
Q_SelectOpen ==
    <<"S", "E", "L", "E", "C", "T", " ", "*", " ", "F", "R", "O", "M", " ", "o", "p",
      "e", "n", "_", "o", "r", "d", "e", "r", "s">>

\* SELECT * FROM secret_users
Q_SelectSecret ==
    <<"S", "E", "L", "E", "C", "T", " ", "*", " ", "F", "R", "O", "M", " ", "s", "e",
      "c", "r", "e", "t", "_", "u", "s", "e", "r", "s">>

\* SELECT 1; DROP TABLE open_orders
Q_SelectDrop ==
    <<"S", "E", "L", "E", "C", "T", " ", "1", ";", " ", "D", "R", "O", "P", " ", "T",
      "A", "B", "L", "E", " ", "o", "p", "e", "n", "_", "o", "r", "d", "e", "r", "s">>

\* UPDATE open_orders SET x=1
Q_UpdateOpen ==
    <<"U", "P", "D", "A", "T", "E", " ", "o", "p", "e", "n", "_", "o", "r", "d", "e",
      "r", "s", " ", "S", "E", "T", " ", "x", "=", "1">>

\* UPDATE t SET x=1
Q_UpdateT ==
    <<"U", "P", "D", "A", "T", "E", " ", "t", " ", "S", "E", "T", " ", "x", "=", "1">>

\* lower case, surrounded by blanks, one trailing semicolon
Q_LowerTrailing ==
    <<" ", " ", "s", "e", "l", "e", "c", "t", " ", "*", " ", "f", "r", "o", "m", " ",
      "o", "p", "e", "n", "_", "o", "r", "d", "e", "r", "s", " ", ";", " ">>

\* one statement followed by semicolons and blanks only
Q_TrailingSemis ==
    <<"S", "E", "L", "E", "C", "T", " ", "1", ";", ";", " ", ";">>

\* two references, the second to secret_users
Q_JoinSecretLast ==
    <<"S", "E", "L", "E", "C", "T", " ", "*", " ", "F", "R", "O", "M", " ", "o", "p",
      "e", "n", "_", "o", "r", "d", "e", "r", "s", " ", "o", " ", "J", "O", "I", "N",
      " ", "s", "e", "c", "r", "e", "t", "_", "u", "s", "e", "r", "s", " ", "s">>

\* two references, the first to secret_users
Q_JoinSecretFirst ==
    <<"S", "E", "L", "E", "C", "T", " ", "*", " ", "F", "R", "O", "M", " ", "s", "e",
      "c", "r", "e", "t", "_", "u", "s", "e", "r", "s", " ", "J", "O", "I", "N", " ",
      "o", "p", "e", "n", "_", "o", "r", "d", "e", "r", "s">>

\* three references, the second to secret_users
Q_JoinSecretMiddle ==
    <<"S", "E", "L", "E", "C", "T", " ", "*", " ", "F", "R", "O", "M", " ", "l", "o",
      "g", "_", "1", " ", "J", "O", "I", "N", " ", "s", "e", "c", "r", "e", "t", "_",
      "u", "s", "e", "r", "s", " ", "J", "O", "I", "N", " ", "o", "p", "e", "n", "_",
      "o", "r", "d", "e", "r", "s">>

\* SELECT * FROM secret_db.open_orders
Q_QualifiedOpen ==
    <<"S", "E", "L", "E", "C", "T", " ", "*", " ", "F", "R", "O", "M", " ", "s", "e",
      "c", "r", "e", "t", "_", "d", "b", ".", "o", "p", "e", "n", "_", "o", "r", "d",
      "e", "r", "s">>

\* a qualified, back-quoted reference with blanks around the dot
Q_QualifiedSecret ==
    <<"s", "e", "l", "e", "c", "t", " ", "*", " ", "f", "r", "o", "m", " ", "s", "e",
      "c", "r", "e", "t", "_", "d", "b", " ", ".", " ", BackQuote, "s", "e", "c", "r",
      "e", "t", "_", "u", "s", "e", "r", "s", BackQuote>>

\* DROP TABLE open_orders
Q_DropOpen ==
    <<"D", "R", "O", "P", " ", "T", "A", "B", "L", "E", " ", "o", "p", "e", "n", "_",
      "o", "r", "d", "e", "r", "s">>

\* a statement that starts with no recognized keyword
Q_Grant ==
    <<"G", "R", "A", "N", "T", " ", "A", "L", "L", " ", "O", "N", " ", "o", "p", "e",
      "n", "_", "o", "r", "d", "e", "r", "s">>

\* show tables
Q_ShowTables ==
    <<"s", "h", "o", "w", " ", "t", "a", "b", "l", "e", "s">>

\* two statements, each with a reference
Q_InsertDelete ==
    <<"I", "N", "S", "E", "R", "T", " ", "I", "N", "T", "O", " ", "l", "o", "g", "_",
      "1", " ", "V", "A", "L", "U", "E", "S", " ", "(", "1", ")", ";", " ", "D", "E",
      "L", "E", "T", "E", " ", "F", "R", "O", "M", " ", "s", "e", "c", "r", "e", "t",
      "_", "u", "s", "e", "r", "s">>

\* the text before the back-quoted database of the listTables query
Q_ShowTablesFrom ==
    <<"S", "H", "O", "W", " ", "T", "A", "B", "L", "E", "S", " ", "F", "R", "O", "M",
      " ">>

\* SHOW DATABASES
Q_ShowDatabases ==
    <<"S", "H", "O", "W", " ", "D", "A", "T", "A", "B", "A", "S", "E", "S">>

SqlTexts ==
    {Q_Select1, Q_SelectOpen, Q_SelectSecret, Q_SelectDrop, Q_UpdateOpen, Q_UpdateT,
     Q_LowerTrailing, Q_TrailingSemis, Q_JoinSecretLast, Q_JoinSecretFirst,
     Q_JoinSecretMiddle, Q_QualifiedOpen, Q_QualifiedSecret, Q_DropOpen, Q_Grant,
     Q_ShowTables, Q_InsertDelete}

\* the source argument of an invocation: absent, blank, configured or unknown
SourceArgs == {Undefined, N_blank, N_star, N_rw, N_locked, N_nosuch}

\* an sql argument that is no string: absent, or a number
NotAString == <<"number">>

NonTexts == {Undefined, NotAString}

\* the table argument of mysql_describe
TableArgs == {T_open_orders, T_secret_users}

\* the database argument of an invocation: absent, empty or a name
DatabaseArgs == {Undefined, <<>>, DB_production, DB_secret}

\* the pattern argument of mysql_tables
PatternArgs == {Undefined, P_open, P_users, Star}

\* the rows the database server may answer a listing with (first column)
DatabaseRows == {<<DB_production, DB_secret>>, <<DB_secret>>}

TableRows == {<<T_open_orders, T_secret_users, T_log_1>>, <<T_secret_users>>}

PermissionConfig(allowedSqlTypes, tablePatterns, allowedDatabases, allowMultiStatement, readOnly) ==
    [allowedSqlTypes |-> allowedSqlTypes, tablePatterns |-> tablePatterns,
     allowedDatabases |-> allowedDatabases,
     allowMultiStatement |-> allowMultiStatement, readOnly |-> readOnly]

SourceConfig(database, permissions) ==
    [connection |-> [database |-> database], permissions |-> permissions]

\* the scenario policy of the specification, section 8
ScenarioPolicy ==
    PermissionConfig(<<KW_SELECT>>, <<P_open>>, <<Star>>, FALSE, TRUE)

\* the source table of the modelled deployment:
\*   prod    the scenario policy, default database production_db
\*   star    every statement type listed by the wildcard, read-only
\*   rw      read-write, multi-statement, two table patterns, one database
\*   locked  empty table and database allow-lists, default database secret_db
ConfiguredSources ==
    (N_prod :> SourceConfig(DB_production, ScenarioPolicy))
    @@ (N_star :> SourceConfig(Undefined,
            PermissionConfig(<<Star>>, <<Star>>, <<Star>>, FALSE, TRUE)))
    @@ (N_rw :> SourceConfig(Undefined,
            PermissionConfig(<<KW_SELECT, KW_INSERT, KW_UPDATE, KW_DELETE, KW_DROP>>,
                             <<P_open, P_log>>, <<DB_production>>, TRUE, FALSE)))
    @@ (N_locked :> SourceConfig(DB_secret,
            PermissionConfig(<<KW_SELECT>>, <<>>, <<>>, FALSE, TRUE)))

(***************************************************************************)
(* State                                                                   *)
(***************************************************************************)

\* the number of invocations the transport delivers
MaxCalls == 1

Calls == 1..MaxCalls

VARIABLES
    probe,           \* one application of a pure function: its arguments and result
    process,         \* "starting", "serving" or "exited": where main() stands
    shutdown,        \* where the SIGINT handler stands, and the pools it has ended
    SOURCE_CONFIGS,  \* source name -> connection and permissions, built at startup
    DEFAULT_SOURCE,  \* the name an invocation without a source resolves to
    POOLS,           \* pool key -> pool: the cache of connection pools
    created,         \* the mysql.createPool calls in order: the key, and the call
                     \* that made it (NoCall for main)
    running,         \* the call holding the JavaScript thread, or NoCall
    pc,              \* where each call of the handler stands
    req,             \* request.params of each call
    local,           \* the local variables of each call
    sent,            \* what each call handed to connection.execute
    response         \* what each call returned to the transport

vars == <<probe, process, shutdown, SOURCE_CONFIGS, DEFAULT_SOURCE, POOLS, created, running, pc, req, local,
          sent, response>>

NoCall == 0

NoPool == [id |-> 0, database |-> Undefined]

NoReq ==
    [name |-> "none", source |-> Undefined, sql |-> Undefined,
     database |-> Undefined, pattern |-> Undefined]

NoLocal ==
    [sourceName |-> Undefined, tableRefs |-> <<>>, refIdx |-> 0,
     execSql |-> Undefined, execDatabase |-> Undefined, pool |-> NoPool,
     connection |-> "none", rows |-> <<>>]

NoResponse == [kind |-> "none", isError |-> FALSE]

\* request.params of the three tools that reach the database through the policy
QueryRequests ==
    {[name |-> "mysql_query", source |-> s, sql |-> q, database |-> d,
      pattern |-> Undefined] :
        s \in SourceArgs, q \in SqlTexts \cup NonTexts, d \in DatabaseArgs}

DatabasesRequests ==
    {[name |-> "mysql_databases", source |-> s, sql |-> Undefined,
      database |-> Undefined, pattern |-> Undefined] : s \in SourceArgs}

TablesRequests ==
    {[name |-> "mysql_tables", source |-> s, sql |-> Undefined, database |-> d,
      pattern |-> p] : s \in SourceArgs, d \in DatabaseArgs, p \in PatternArgs}

DescribeRequests ==
    {[name |-> "mysql_describe", source |-> s, sql |-> Undefined, database |-> d,
      pattern |-> Undefined, table |-> t] :
        s \in SourceArgs, d \in DatabaseArgs, t \in TableArgs}

SourcesRequests ==
    {[name |-> "mysql_sources", source |-> Undefined, sql |-> Undefined,
      database |-> Undefined, pattern |-> Undefined]}

PermissionsRequests ==
    {[name |-> "mysql_get_permissions", source |-> s, sql |-> Undefined,
      database |-> Undefined, pattern |-> Undefined] : s \in SourceArgs}

\* a name the switch has no case for
UnknownToolRequests ==
    {[name |-> "mysql_switch_source", source |-> Undefined, sql |-> Undefined,
      database |-> Undefined, pattern |-> Undefined]}

Requests ==
    QueryRequests \cup DatabasesRequests \cup TablesRequests \cup DescribeRequests
        \cup SourcesRequests \cup PermissionsRequests \cup UnknownToolRequests

NoProbe == [fn |-> "none", applied |-> FALSE]

\* no SIGINT was delivered: idx is the place in POOLS.values() of the pool
\* whose end() the handler awaits, ended the pools whose end() has resolved,
\* cached the number of pools in the cache when the signal came
NoShutdown == [phase |-> "none", idx |-> 0, ended |-> {}, cached |-> 0]

Init ==
    /\ probe = NoProbe
    /\ process = "starting"
    /\ shutdown = NoShutdown
    /\ SOURCE_CONFIGS = ConfiguredSources
    /\ DEFAULT_SOURCE = N_prod
    /\ POOLS = <<>>
    /\ created = <<>>
    /\ running = NoCall
    /\ pc = [c \in Calls |-> "idle"]
    /\ req = [c \in Calls |-> NoReq]
    /\ local = [c \in Calls |-> NoLocal]
    /\ sent = [c \in Calls |-> <<>>]
    /\ response = [c \in Calls |-> NoResponse]

(***************************************************************************)
(* Source registry and pool cache                                          *)
(***************************************************************************)

ErrUnknownSource(sourceName) ==
    [kind |-> "unknown-source", name |-> sourceName,
     available |-> DOMAIN SOURCE_CONFIGS]

\* a registry that answers an unknown name with the default source
GetSourceConfigFallingBack(source) ==
    LET sourceName ==
            IF Truthy(source) /\ Trim(source) # <<>> /\ source \in DOMAIN SOURCE_CONFIGS
            THEN source ELSE DEFAULT_SOURCE
    IN  IF sourceName \in DOMAIN SOURCE_CONFIGS
        THEN [ok |-> TRUE, sourceName |-> sourceName]
        ELSE [ok |-> FALSE, error |-> ErrUnknownSource(sourceName)]

\* getSourceConfig: a successful result stands for { sourceName, config }
GetSourceConfig(source) ==
    LET sourceName ==
            IF Truthy(source) /\ Trim(source) # <<>> THEN source ELSE DEFAULT_SOURCE
    IN  IF sourceName \in DOMAIN SOURCE_CONFIGS
        THEN [ok |-> TRUE, sourceName |-> sourceName]
        ELSE [ok |-> FALSE, error |-> ErrUnknownSource(sourceName)]

\* config.permissions of the source a call resolved
PermissionsOf(c) == SOURCE_CONFIGS[local[c].sourceName].permissions

\* config.connection.database of the source a call resolved
DefaultDatabaseOf(c) == SOURCE_CONFIGS[local[c].sourceName].connection.database

\* targetDatabase of getPool
TargetDatabase(sourceName, database) ==
    OrElse(database, SOURCE_CONFIGS[sourceName].connection.database)

\* the cache key of getPool: the source name and targetDatabase, or the empty text
PoolKey(sourceName, database) ==
    LET targetDatabase == TargetDatabase(sourceName, database)
    IN  <<sourceName, IF Truthy(targetDatabase) THEN targetDatabase ELSE <<>> >>

\* the pool mysql.createPool(poolConfig) makes: poolConfig.database is
\* targetDatabase, or deleted when there is none
NewPool(sourceName, database) ==
    LET targetDatabase == TargetDatabase(sourceName, database)
    IN  [id |-> Len(created) + 1,
         database |-> IF Truthy(targetDatabase) THEN targetDatabase ELSE Undefined]

(***************************************************************************)
(* Responses                                                               *)
(***************************************************************************)

\* a handler without its catch: what is thrown leaves the handler
ToolExecutionErrorUncaught(error) == [kind |-> "thrown", error |-> error]

ToolExecutionError(error) ==
    [kind |-> "tool-execution-error", isError |-> TRUE, error |-> error]

PermissionDenied(error) ==
    [kind |-> "permission-denied", isError |-> TRUE, error |-> error]

NoDatabaseSpecified == [kind |-> "no-database", isError |-> TRUE]

\* the result object of executeQuery
Success(rows) == [success |-> TRUE, rows |-> rows]

Failure(error) == [success |-> FALSE, error |-> error]

\* the response of case mysql_query after executeQuery returned
ShapeQuery(c, result) ==
    IF result.success
    THEN [kind |-> "query-ok", isError |-> FALSE, sql |-> req[c].sql,
          rows |-> result.rows]
    ELSE [kind |-> "query-failed", isError |-> TRUE, sql |-> req[c].sql,
          error |-> result.error]

\* the response of case mysql_databases after executeQuery returned
ShapeDatabases(c, result) ==
    IF result.success
    THEN LET allDatabases == result.rows
             allowedDatabases ==
                 IF ListIncludes(PermissionsOf(c).allowedDatabases, Star)
                 THEN allDatabases
                 ELSE SelectSeq(allDatabases,
                        LAMBDA db : MatchesPattern(db, PermissionsOf(c).allowedDatabases))
         IN  [kind |-> "databases", isError |-> FALSE, names |-> allowedDatabases]
    ELSE [kind |-> "list-error", isError |-> TRUE, error |-> result.error]

\* a table listing whose caller pattern replaces the policy filter
ShapeTablesCallerPatternOnly(c, result) ==
    IF result.success
    THEN LET allTables == result.rows
             filteredTables ==
                 IF Truthy(req[c].pattern)
                 THEN SelectSeq(allTables, LAMBDA t : Minimatch(t, req[c].pattern))
                 ELSE SelectSeq(allTables,
                        LAMBDA t : MatchesPattern(t, PermissionsOf(c).tablePatterns))
         IN  [kind |-> "tables", isError |-> FALSE, names |-> filteredTables]
    ELSE [kind |-> "list-error", isError |-> TRUE, error |-> result.error]

\* the response of case mysql_tables after executeQuery returned
ShapeTables(c, result) ==
    IF result.success
    THEN LET allTables == result.rows
             byPolicy ==
                 SelectSeq(allTables,
                     LAMBDA t : MatchesPattern(t, PermissionsOf(c).tablePatterns))
             filteredTables ==
                 IF Truthy(req[c].pattern)
                 THEN SelectSeq(byPolicy, LAMBDA t : Minimatch(t, req[c].pattern))
                 ELSE byPolicy
         IN  [kind |-> "tables", isError |-> FALSE, names |-> filteredTables]
    ELSE [kind |-> "list-error", isError |-> TRUE, error |-> result.error]

\* the response of case mysql_describe after executeQuery returned
ShapeDescribe(c, result) ==
    IF result.success
    THEN [kind |-> "describe", isError |-> FALSE, rows |-> result.rows]
    ELSE [kind |-> "describe-error", isError |-> TRUE, error |-> result.error]

Shape(c, result) ==
    IF req[c].name = "mysql_query" THEN ShapeQuery(c, result)
    ELSE IF req[c].name = "mysql_databases" THEN ShapeDatabases(c, result)
    ELSE IF req[c].name = "mysql_describe" THEN ShapeDescribe(c, result)
    ELSE ShapeTables(c, result)

\* the response of case mysql_sources
SourcesList ==
    [kind |-> "sources", isError |-> FALSE, names |-> DOMAIN SOURCE_CONFIGS,
     default |-> DEFAULT_SOURCE]

\* the response of case mysql_get_permissions
PermissionsText(sourceName) ==
    [kind |-> "permissions", isError |-> FALSE, sourceName |-> sourceName,
     permissions |-> SOURCE_CONFIGS[sourceName].permissions]

\* default: throw new Error(Unknown tool: name)
ErrUnknownTool(name) == [kind |-> "unknown-tool", name |-> name]

\* the TypeError of calling a string method on a value that is no string
TypeError == [kind |-> "type-error"]

(***************************************************************************)
(* main                                                                    *)
(***************************************************************************)

\* main with SKIP_DB_TEST=true: no connection test, the transport is connected
StartSkippingTest ==
    /\ process = "starting"
    /\ process' = "serving"
    /\ UNCHANGED <<probe, shutdown, SOURCE_CONFIGS, DEFAULT_SOURCE, POOLS, created, running, pc, req,
                   local, sent, response>>

\* main testing [DEFAULT_SOURCE]: getPool(sourceName) creates and caches the
\* pool of the default source; a failing test (an unknown default source, a
\* refused connection) ends the process, a passing one connects the transport
StartTestingDefault ==
    /\ process = "starting"
    /\ LET r == GetSourceConfig(DEFAULT_SOURCE)
           key == PoolKey(r.sourceName, Undefined)
       IN  IF ~r.ok
           THEN /\ process' = "exited"
                /\ UNCHANGED <<POOLS, created>>
           ELSE /\ POOLS' = POOLS @@ (key :> NewPool(r.sourceName, Undefined))
                /\ created' = Append(created, [key |-> key, by |-> NoCall])
                /\ process' \in {"serving", "exited"}
    /\ UNCHANGED <<probe, shutdown, SOURCE_CONFIGS, DEFAULT_SOURCE, running, pc, req, local, sent,
                   response>>

(***************************************************************************)
(* The CallToolRequestSchema handler                                       *)
(*                                                                         *)
(* A call holds the thread (running = c) from the moment the handler is    *)
(* entered to its first await or return; every resumption after an await   *)
(* is one action.                                                          *)
(***************************************************************************)

\* return a response (or throw into the handler's catch, which returns one)
Respond(c, r) ==
    /\ response' = [response EXCEPT ![c] = r]
    /\ pc' = [pc EXCEPT ![c] = "done"]
    /\ running' = NoCall

\* the transport hands request.params, one of requests, to the handler
Arrive(c, requests) ==
    /\ process = "serving"
    /\ running = NoCall
    /\ pc[c] = "idle"
    /\ \E r \in requests : req' = [req EXCEPT ![c] = r]
    /\ pc' = [pc EXCEPT ![c] = "resolve"]
    /\ running' = c
    /\ UNCHANGED <<probe, process, shutdown, SOURCE_CONFIGS, DEFAULT_SOURCE, POOLS, created, local, sent, response>>

Receive(c) == Arrive(c, Requests)

\* the cases of the switch that start with getSourceConfig(source)
ToolsWithSource ==
    {"mysql_query", "mysql_databases", "mysql_tables", "mysql_describe",
     "mysql_get_permissions"}

\* case mysql_sources: the names and the default, no source resolved
ListSources(c) ==
    /\ running = c
    /\ pc[c] = "resolve"
    /\ req[c].name = "mysql_sources"
    /\ Respond(c, SourcesList)
    /\ UNCHANGED <<probe, process, shutdown, SOURCE_CONFIGS, DEFAULT_SOURCE, POOLS, created, req, local, sent>>

\* default: the throw is caught by the catch of the handler
UnknownTool(c) ==
    /\ running = c
    /\ pc[c] = "resolve"
    /\ req[c].name \notin ToolsWithSource \cup {"mysql_sources"}
    /\ Respond(c, ToolExecutionError(ErrUnknownTool(req[c].name)))
    /\ UNCHANGED <<probe, process, shutdown, SOURCE_CONFIGS, DEFAULT_SOURCE, POOLS, created, req, local, sent>>

\* const { sourceName, config } = getSourceConfig(source), first line of each case
Resolve(c) ==
    /\ running = c
    /\ pc[c] = "resolve"
    /\ req[c].name \in ToolsWithSource
    /\ LET r == GetSourceConfig(req[c].source)
       IN  IF ~r.ok
           THEN /\ Respond(c, ToolExecutionError(r.error))
                /\ UNCHANGED local
           ELSE IF req[c].name = "mysql_get_permissions"
           THEN /\ Respond(c, PermissionsText(r.sourceName))
                /\ local' = [local EXCEPT ![c].sourceName = r.sourceName]
           ELSE /\ local' = [local EXCEPT ![c] =
                      IF req[c].name = "mysql_databases"
                      THEN [@ EXCEPT !.sourceName = r.sourceName,
                                     !.execSql = Q_ShowDatabases,
                                     !.execDatabase = Undefined]
                      ELSE [@ EXCEPT !.sourceName = r.sourceName]]
                /\ pc' = [pc EXCEPT ![c] =
                      IF req[c].name = "mysql_query" THEN "classify"
                      ELSE IF req[c].name = "mysql_databases" THEN "executeQuery"
                      ELSE IF req[c].name = "mysql_describe" THEN "describe"
                      ELSE "targetDb"]
                /\ UNCHANGED <<running, response>>
    /\ UNCHANGED <<probe, process, shutdown, SOURCE_CONFIGS, DEFAULT_SOURCE, POOLS, created, req, sent>>

\* a handler that goes on to the table checks whatever the classifier said
ClassifyIgnoringDenial(c) ==
    /\ running = c
    /\ pc[c] = "classify"
    /\ pc' = [pc EXCEPT ![c] = "extract"]
    /\ UNCHANGED <<probe, process, shutdown, SOURCE_CONFIGS, DEFAULT_SOURCE, POOLS, created,
                   running, req, local, sent, response>>

\* case mysql_query: validateSqlType(sql, permissionConfig); sql.trim() throws
\* on an sql that is no string
Classify(c) ==
    /\ running = c
    /\ pc[c] = "classify"
    /\ IF req[c].sql \in NonTexts
       THEN Respond(c, ToolExecutionError(TypeError))
       ELSE LET sqlValidation == ValidateSqlType(req[c].sql, PermissionsOf(c))
            IN  IF ~sqlValidation.valid
                THEN Respond(c, PermissionDenied(sqlValidation.error))
                ELSE /\ pc' = [pc EXCEPT ![c] = "extract"]
                     /\ UNCHANGED <<running, response>>
    /\ UNCHANGED <<probe, process, shutdown, SOURCE_CONFIGS, DEFAULT_SOURCE, POOLS, created, req, local, sent>>

\* case mysql_query: const tableRefs = extractTableRefs(sql)
Extract(c) ==
    /\ running = c
    /\ pc[c] = "extract"
    /\ local' = [local EXCEPT ![c] =
          [@ EXCEPT !.tableRefs = ExtractTableRefs(req[c].sql), !.refIdx = 1]]
    /\ pc' = [pc EXCEPT ![c] = "checkRef"]
    /\ UNCHANGED <<probe, process, shutdown, SOURCE_CONFIGS, DEFAULT_SOURCE, POOLS, created, running, req, sent,
                   response>>

\* an effective database that prefers the caller's argument to the qualifier
EffectiveDatabaseArgumentFirst(c, ref) ==
    OrElse(req[c].database, OrElse(ref.database, DefaultDatabaseOf(c)))

\* ref.database || database || config.connection.database
EffectiveDatabase(c, ref) ==
    OrElse(ref.database, OrElse(req[c].database, DefaultDatabaseOf(c)))

\* the validateTableAccess call of the loop for one reference
CheckOf(c, ref) ==
    ValidateTableAccess(ref.table, PermissionsOf(c), EffectiveDatabase(c, ref))

\* a loop that checks the first reference only
CheckRefFirstOnly(c) ==
    /\ running = c
    /\ pc[c] = "checkRef"
    /\ IF local[c].refIdx > Len(local[c].tableRefs) \/ local[c].refIdx > 1
       THEN /\ local' = [local EXCEPT ![c] =
                  [@ EXCEPT !.execSql = req[c].sql, !.execDatabase = req[c].database]]
            /\ pc' = [pc EXCEPT ![c] = "executeQuery"]
            /\ UNCHANGED <<running, response>>
       ELSE LET tableValidation == CheckOf(c, local[c].tableRefs[local[c].refIdx])
            IN  IF ~tableValidation.valid
                THEN /\ Respond(c, PermissionDenied(tableValidation.error))
                     /\ UNCHANGED local
                ELSE /\ local' = [local EXCEPT ![c].refIdx = @ + 1]
                     /\ UNCHANGED <<pc, running, response>>
    /\ UNCHANGED <<probe, process, shutdown, SOURCE_CONFIGS, DEFAULT_SOURCE, POOLS, created, req,
                   sent>>

\* case mysql_query: one turn of for (const ref of tableRefs), or its exit to
\* executeQuery(sql, database, sourceName)
CheckRef(c) ==
    /\ running = c
    /\ pc[c] = "checkRef"
    /\ IF local[c].refIdx > Len(local[c].tableRefs)
       THEN /\ local' = [local EXCEPT ![c] =
                  [@ EXCEPT !.execSql = req[c].sql, !.execDatabase = req[c].database]]
            /\ pc' = [pc EXCEPT ![c] = "executeQuery"]
            /\ UNCHANGED <<running, response>>
       ELSE LET tableValidation == CheckOf(c, local[c].tableRefs[local[c].refIdx])
            IN  IF ~tableValidation.valid
                THEN /\ Respond(c, PermissionDenied(tableValidation.error))
                     /\ UNCHANGED local
                ELSE /\ local' = [local EXCEPT ![c].refIdx = @ + 1]
                     /\ UNCHANGED <<pc, running, response>>
    /\ UNCHANGED <<probe, process, shutdown, SOURCE_CONFIGS, DEFAULT_SOURCE, POOLS, created, req, sent>>

\* case mysql_tables: the target database and its access check
TargetDb(c) ==
    /\ running = c
    /\ pc[c] = "targetDb"
    /\ LET targetDb == OrElse(req[c].database, DefaultDatabaseOf(c))
       IN  IF ~Truthy(targetDb)
           THEN /\ Respond(c, NoDatabaseSpecified)
                /\ UNCHANGED local
           ELSE IF ~MatchesPattern(targetDb, PermissionsOf(c).allowedDatabases)
           THEN /\ Respond(c, PermissionDenied(ErrDatabase(targetDb)))
                /\ UNCHANGED local
           ELSE /\ local' = [local EXCEPT ![c] =
                      [@ EXCEPT !.execSql =
                                    Q_ShowTablesFrom \o <<BackQuote>> \o targetDb
                                    \o <<BackQuote>>,
                                !.execDatabase = Undefined]]
                /\ pc' = [pc EXCEPT ![c] = "executeQuery"]
                /\ UNCHANGED <<running, response>>
    /\ UNCHANGED <<probe, process, shutdown, SOURCE_CONFIGS, DEFAULT_SOURCE, POOLS, created, req, sent>>

\* the text DESCRIBE followed by a blank
Q_Describe == <<"D", "E", "S", "C", "R", "I", "B", "E", " ">>

\* case mysql_describe: the target database and the access check of the table
Describe(c) ==
    /\ running = c
    /\ pc[c] = "describe"
    /\ LET targetDb == OrElse(req[c].database, DefaultDatabaseOf(c))
           tableValidation == ValidateTableAccess(req[c].table, PermissionsOf(c), targetDb)
       IN  IF ~Truthy(targetDb)
           THEN /\ Respond(c, NoDatabaseSpecified)
                /\ UNCHANGED local
           ELSE IF ~tableValidation.valid
           THEN /\ Respond(c, PermissionDenied(tableValidation.error))
                /\ UNCHANGED local
           ELSE /\ local' = [local EXCEPT ![c] =
                      [@ EXCEPT !.execSql =
                                    Q_Describe \o <<BackQuote>> \o targetDb
                                    \o <<BackQuote, ".", BackQuote>> \o req[c].table
                                    \o <<BackQuote>>,
                                !.execDatabase = Undefined]]
                /\ pc' = [pc EXCEPT ![c] = "executeQuery"]
                /\ UNCHANGED <<running, response>>
    /\ UNCHANGED <<probe, process, shutdown, SOURCE_CONFIGS, DEFAULT_SOURCE, POOLS, created, req, sent>>

\* a getPool that never looks into the cache
ExecuteQueryWithoutCache(c) ==
    /\ running = c
    /\ pc[c] = "executeQuery"
    /\ LET r == GetSourceConfig(local[c].sourceName)
           key == PoolKey(r.sourceName, local[c].execDatabase)
       IN  IF ~r.ok
           THEN /\ Respond(c, Shape(c, Failure(r.error)))
                /\ UNCHANGED <<POOLS, created, local>>
           ELSE /\ POOLS' = (key :> NewPool(r.sourceName, local[c].execDatabase)) @@ POOLS
                /\ created' = Append(created, [key |-> key, by |-> c])
                /\ local' = [local EXCEPT ![c].pool =
                      NewPool(r.sourceName, local[c].execDatabase)]
                /\ pc' = [pc EXCEPT ![c] = "awaitConnection"]
                /\ running' = NoCall
                /\ UNCHANGED response
    /\ UNCHANGED <<probe, process, shutdown, SOURCE_CONFIGS, DEFAULT_SOURCE, req, sent>>

\* a getPool that writes the target database into the configuration of the
\* source instead of a copy of it
ExecuteQuerySharingConfig(c) ==
    /\ running = c
    /\ pc[c] = "executeQuery"
    /\ LET r == GetSourceConfig(local[c].sourceName)
           key == PoolKey(r.sourceName, local[c].execDatabase)
       IN  IF ~r.ok
           THEN /\ Respond(c, Shape(c, Failure(r.error)))
                /\ UNCHANGED <<POOLS, created, local, SOURCE_CONFIGS>>
           ELSE /\ IF key \in DOMAIN POOLS
                   THEN /\ local' = [local EXCEPT ![c].pool = POOLS[key]]
                        /\ UNCHANGED <<POOLS, created, SOURCE_CONFIGS>>
                   ELSE /\ POOLS' = POOLS @@
                              (key :> NewPool(r.sourceName, local[c].execDatabase))
                        /\ created' = Append(created, [key |-> key, by |-> c])
                        /\ local' = [local EXCEPT ![c].pool =
                              NewPool(r.sourceName, local[c].execDatabase)]
                        /\ SOURCE_CONFIGS' =
                              [SOURCE_CONFIGS EXCEPT ![r.sourceName].connection.database =
                                  NewPool(r.sourceName, local[c].execDatabase).database]
                /\ pc' = [pc EXCEPT ![c] = "awaitConnection"]
                /\ running' = NoCall
                /\ UNCHANGED response
    /\ UNCHANGED <<probe, process, shutdown, DEFAULT_SOURCE, req, sent>>

\* executeQuery up to its first await: getPool(source, database), which returns
\* the cached pool of the key or creates and caches one, then pool.getConnection()
ExecuteQuery(c) ==
    /\ running = c
    /\ pc[c] = "executeQuery"
    /\ LET r == GetSourceConfig(local[c].sourceName)
           key == PoolKey(r.sourceName, local[c].execDatabase)
       IN  IF ~r.ok
           THEN /\ Respond(c, Shape(c, Failure(r.error)))
                /\ UNCHANGED <<POOLS, created, local>>
           ELSE /\ IF key \in DOMAIN POOLS
                   THEN /\ local' = [local EXCEPT ![c].pool = POOLS[key]]
                        /\ UNCHANGED <<POOLS, created>>
                   ELSE /\ POOLS' = POOLS @@
                              (key :> NewPool(r.sourceName, local[c].execDatabase))
                        /\ created' = Append(created, [key |-> key, by |-> c])
                        /\ local' = [local EXCEPT ![c].pool =
                              NewPool(r.sourceName, local[c].execDatabase)]
                /\ pc' = [pc EXCEPT ![c] = "awaitConnection"]
                /\ running' = NoCall
                /\ UNCHANGED response
    /\ UNCHANGED <<probe, process, shutdown, SOURCE_CONFIGS, DEFAULT_SOURCE, req, sent>>

\* pool.getConnection() resolved: connection.execute(sql) is called and awaited
ConnectionAcquired(c) ==
    /\ running = NoCall
    /\ pc[c] = "awaitConnection"
    /\ local' = [local EXCEPT ![c].connection = "held"]
    /\ sent' = [sent EXCEPT ![c] =
          Append(@, [pool |-> local[c].pool, sql |-> local[c].execSql])]
    /\ pc' = [pc EXCEPT ![c] = "awaitExecute"]
    /\ UNCHANGED <<probe, process, shutdown, SOURCE_CONFIGS, DEFAULT_SOURCE, POOLS, created, running, req,
                   response>>

\* pool.getConnection() rejected: the outer catch of executeQuery
ConnectionRejected(c) ==
    /\ running = NoCall
    /\ pc[c] = "awaitConnection"
    /\ Respond(c, Shape(c, Failure([kind |-> "driver", at |-> "getConnection"])))
    /\ UNCHANGED <<probe, process, shutdown, SOURCE_CONFIGS, DEFAULT_SOURCE, POOLS, created, req, local, sent>>

\* the rows the server may answer this call's statement with
RowsFor(c) ==
    IF req[c].name = "mysql_databases" THEN DatabaseRows
    ELSE IF req[c].name = "mysql_tables" THEN TableRows
    ELSE {<<>>}

\* what follows a resolved execute: the result is built and the connection
\* released, or fields.map throws, or connection.release() throws
ExecuteOutcomes == {"result", "fields-undefined", "release-throws"}

\* connection.execute(sql) resolved with [rows, fields]; fields is undefined
\* for a statement without a result set, and fields.map then throws; finally
\* calls connection.release() either way, and what release throws goes to
\* the outer catch as well
ExecuteResolved(c) ==
    /\ running = NoCall
    /\ pc[c] = "awaitExecute"
    /\ \E rows \in RowsFor(c), outcome \in ExecuteOutcomes :
          /\ local' = [local EXCEPT ![c] =
                [@ EXCEPT !.connection =
                              IF outcome = "release-throws" THEN "release-failed"
                              ELSE "released",
                          !.rows = rows]]
          /\ Respond(c, Shape(c,
                IF outcome = "result" THEN Success(rows)
                ELSE IF outcome = "fields-undefined" THEN Failure(TypeError)
                ELSE Failure([kind |-> "driver", at |-> "release"])))
    /\ UNCHANGED <<probe, process, shutdown, SOURCE_CONFIGS, DEFAULT_SOURCE, POOLS, created, req, sent>>

\* an executeQuery whose release stands after the execute instead of in a
\* finally block: a rejected execute goes to the catch with the connection held
ExecuteRejectedWithoutFinally(c) ==
    /\ running = NoCall
    /\ pc[c] = "awaitExecute"
    /\ Respond(c, Shape(c, Failure([kind |-> "driver", at |-> "execute"])))
    /\ UNCHANGED <<probe, process, shutdown, SOURCE_CONFIGS, DEFAULT_SOURCE, POOLS, created, req, local, sent>>

\* connection.execute(sql) rejected: finally releases, the outer catch answers
ExecuteRejected(c) ==
    /\ running = NoCall
    /\ pc[c] = "awaitExecute"
    /\ local' = [local EXCEPT ![c].connection = "released"]
    /\ Respond(c, Shape(c, Failure([kind |-> "driver", at |-> "execute"])))
    /\ UNCHANGED <<probe, process, shutdown, SOURCE_CONFIGS, DEFAULT_SOURCE, POOLS, created, req, sent>>

\* the response has gone to the caller: the frame of the call is dropped
Return(c) ==
    /\ pc[c] = "done"
    /\ pc' = [pc EXCEPT ![c] = "returned"]
    /\ req' = [req EXCEPT ![c] = NoReq]
    /\ local' = [local EXCEPT ![c] = NoLocal]
    /\ sent' = [sent EXCEPT ![c] = <<>>]
    /\ response' = [response EXCEPT ![c] = NoResponse]
    /\ UNCHANGED <<probe, process, shutdown, SOURCE_CONFIGS, DEFAULT_SOURCE, POOLS, created, running>>

\* the transport delivers the invocations one after the other
OneAtATime(c) ==
    /\ \A d \in Calls : d < c => pc[d] = "returned"
    /\ \A d \in Calls : d > c => pc[d] = "idle"

Next ==
    \/ StartSkippingTest
    \/ StartTestingDefault
    \/ \E c \in Calls :
        \/ OneAtATime(c) /\ Receive(c)
        \/ ListSources(c)
        \/ UnknownTool(c)
        \/ Resolve(c)
        \/ Describe(c)
        \/ Classify(c)
        \/ Extract(c)
        \/ CheckRef(c)
        \/ TargetDb(c)
        \/ ExecuteQuery(c)
        \/ ConnectionAcquired(c)
        \/ ConnectionRejected(c)
        \/ ExecuteResolved(c)
        \/ ExecuteRejected(c)
        \/ Return(c)

Spec == Init /\ [][Next]_vars

(***************************************************************************)
(* Shutdown: process.on(SIGINT)                                            *)
(*                                                                         *)
(* POOLS.values() walks the cache in insertion order, which is the order   *)
(* of created, and visits what is inserted while the walk is under way.    *)
(***************************************************************************)

\* the handler up to its first await: pool.end() of the first pool, or
\* process.exit(0) at once when the cache is empty
Sigint ==
    /\ process = "serving"
    /\ running = NoCall
    /\ shutdown.phase = "none"
    /\ IF created = <<>>
       THEN /\ shutdown' = [phase |-> "exited", idx |-> 0, ended |-> {}, cached |-> 0]
            /\ process' = "exited"
       ELSE /\ shutdown' = [phase |-> "awaitEnd", idx |-> 1, ended |-> {},
                            cached |-> Len(created)]
            /\ UNCHANGED process
    /\ UNCHANGED <<probe, SOURCE_CONFIGS, DEFAULT_SOURCE, POOLS, created, running, pc, req,
                   local, sent, response>>

\* a walk of the pools the cache held when the signal came, and of no other
PoolEndedOverSnapshot ==
    /\ process = "serving"
    /\ running = NoCall
    /\ shutdown.phase = "awaitEnd"
    /\ IF shutdown.idx < shutdown.cached
       THEN /\ shutdown' = [shutdown EXCEPT !.idx = @ + 1,
                                            !.ended = @ \cup {shutdown.idx}]
            /\ UNCHANGED process
       ELSE /\ shutdown' = [shutdown EXCEPT !.phase = "exited",
                                            !.ended = @ \cup {shutdown.idx}]
            /\ process' = "exited"
    /\ UNCHANGED <<probe, SOURCE_CONFIGS, DEFAULT_SOURCE, POOLS, created, running, pc, req,
                   local, sent, response>>

\* await pool.end() resolved: the next pool of the walk is ended, or, the
\* walk being over, process.exit(0) is called
PoolEnded ==
    /\ process = "serving"
    /\ running = NoCall
    /\ shutdown.phase = "awaitEnd"
    /\ IF shutdown.idx < Len(created)
       THEN /\ shutdown' = [shutdown EXCEPT !.idx = @ + 1,
                                            !.ended = @ \cup {shutdown.idx}]
            /\ UNCHANGED process
       ELSE /\ shutdown' = [shutdown EXCEPT !.phase = "exited",
                                            !.ended = @ \cup {shutdown.idx}]
            /\ process' = "exited"
    /\ UNCHANGED <<probe, SOURCE_CONFIGS, DEFAULT_SOURCE, POOLS, created, running, pc, req,
                   local, sent, response>>

\* await pool.end() rejected: the handler throws, process.exit(0) is never
\* called; the unhandled rejection ends the process or is only reported,
\* as the runtime is set
PoolEndRejected ==
    /\ process = "serving"
    /\ running = NoCall
    /\ shutdown.phase = "awaitEnd"
    /\ shutdown' = [shutdown EXCEPT !.phase = "thrown"]
    /\ process' \in {"serving", "exited"}
    /\ UNCHANGED <<probe, SOURCE_CONFIGS, DEFAULT_SOURCE, POOLS, created, running, pc, req,
                   local, sent, response>>

(***************************************************************************)
(* Invocations handled concurrently, and the signal                        *)
(***************************************************************************)

\* the number of invocations in progress at once
MaxConcurrent == 2

ConcurrentCalls == 1..MaxConcurrent

\* queries that reach getPool: on the default source with its database named
\* or not, which is one cache key, and on another source
ConcurrentRequests ==
    {[name |-> "mysql_query", source |-> Undefined, sql |-> Q_Select1, database |-> d,
      pattern |-> Undefined] : d \in {Undefined, DB_production}}
    \cup {[name |-> "mysql_query", source |-> N_rw, sql |-> Q_Select1,
           database |-> Undefined, pattern |-> Undefined]}

InitConcurrent ==
    /\ probe = NoProbe
    /\ process = "starting"
    /\ shutdown = NoShutdown
    /\ SOURCE_CONFIGS = ConfiguredSources
    /\ DEFAULT_SOURCE = N_prod
    /\ POOLS = <<>>
    /\ created = <<>>
    /\ running = NoCall
    /\ pc = [c \in ConcurrentCalls |-> "idle"]
    /\ req = [c \in ConcurrentCalls |-> NoReq]
    /\ local = [c \in ConcurrentCalls |-> NoLocal]
    /\ sent = [c \in ConcurrentCalls |-> <<>>]
    /\ response = [c \in ConcurrentCalls |-> NoResponse]

\* the calls are numbered in the order of their arrival
InOrder(c) == \A d \in ConcurrentCalls : d < c => pc[d] # "idle"

NextConcurrent ==
    \/ StartSkippingTest
    \/ StartTestingDefault
    \/ Sigint
    \/ PoolEnded
    \/ PoolEndRejected
    \/ \E c \in ConcurrentCalls :
        /\ process = "serving"
        /\ \/ InOrder(c) /\ Arrive(c, ConcurrentRequests)
           \/ Resolve(c)
           \/ Classify(c)
           \/ Extract(c)
           \/ CheckRef(c)
           \/ ExecuteQuery(c)
           \/ ConnectionAcquired(c)
           \/ ConnectionRejected(c)
           \/ ExecuteResolved(c)
           \/ ExecuteRejected(c)
           \/ Return(c)

SpecConcurrent == InitConcurrent /\ [][NextConcurrent]_vars

(***************************************************************************)
(* The pure functions applied to drawn arguments                           *)
(***************************************************************************)

\* a statement that starts with a semicolon
Q_LeadingSemi == <<";", "S", "E", "L", "E", "C", "T", " ", "1">>

\* a statement with a semicolon inside a string literal
Q_SemiInLiteral ==
    <<"S", "E", "L", "E", "C", "T", " ", SingleQuote, "a", ";", "b", SingleQuote>>

\* semicolons and blanks only
Q_OnlySemis == <<" ", ";", " ", ";">>

ClassifierTexts == SqlTexts \cup {Q_LeadingSemi, Q_SemiInLiteral, Q_OnlySemis, <<>>}

\* the allowedSqlTypes lists of the drawn policies: empty, one type, the
\* wildcard, several types, and the wildcard beside a type
AllowedSqlTypesLists ==
    {<<>>, <<KW_SELECT>>, <<Star>>, <<KW_SELECT, KW_UPDATE, KW_DROP>>,
     <<KW_SHOW, Star>>, <<KW_INSERT, UNKNOWN>>}

ClassifierPolicies ==
    {PermissionConfig(types, <<Star>>, <<Star>>, multi, ro) :
        types \in AllowedSqlTypesLists, multi \in BOOLEAN, ro \in BOOLEAN}

InitPure ==
    /\ \E sql \in ClassifierTexts, permissionConfig \in ClassifierPolicies :
          probe = [fn |-> "validateSqlType", applied |-> FALSE, sql |-> sql,
                   permissionConfig |-> permissionConfig]
    /\ process = "starting"
    /\ shutdown = NoShutdown
    /\ SOURCE_CONFIGS = ConfiguredSources
    /\ DEFAULT_SOURCE = N_prod
    /\ POOLS = <<>>
    /\ created = <<>>
    /\ running = NoCall
    /\ pc = [c \in Calls |-> "idle"]
    /\ req = [c \in Calls |-> NoReq]
    /\ local = [c \in Calls |-> NoLocal]
    /\ sent = [c \in Calls |-> <<>>]
    /\ response = [c \in Calls |-> NoResponse]

ApplyValidateSqlType ==
    /\ probe.fn = "validateSqlType"
    /\ ~probe.applied
    /\ probe' = [fn |-> "validateSqlType", applied |-> TRUE, sql |-> probe.sql,
                 permissionConfig |-> probe.permissionConfig,
                 out |-> ValidateSqlType(probe.sql, probe.permissionConfig)]
    /\ UNCHANGED <<process, shutdown, SOURCE_CONFIGS, DEFAULT_SOURCE, POOLS, created, running,
                   pc, req, local, sent, response>>

NextPure == ApplyValidateSqlType

SpecPure == InitPure /\ [][NextPure]_vars

(***************************************************************************)
(* The configuration of startup                                            *)
(***************************************************************************)

\* JSON values as JSON.parse gives them.  Every value is a record of the
\* same fields; type is what typeof and Array.isArray tell of it.
JsonValue(type, text, num, bool, items) ==
    [type |-> type, text |-> text, num |-> num, bool |-> bool, items |-> items]

\* a property the object does not have
JAbsent == JsonValue("undefined", <<>>, 0, FALSE, <<>>)

JString(text) == JsonValue("string", text, 0, FALSE, <<>>)

JNumber(num) == JsonValue("number", <<>>, num, FALSE, <<>>)

JBoolean(bool) == JsonValue("boolean", <<>>, 0, bool, <<>>)

\* an array; its items are values that are no arrays
JArray(items) == JsonValue("array", <<>>, 0, FALSE, items)

\* the value of a decimal digit
DigitValue(c) ==
    CASE c = "0" -> 0 [] c = "1" -> 1 [] c = "2" -> 2 [] c = "3" -> 3 [] c = "4" -> 4
      [] c = "5" -> 5 [] c = "6" -> 6 [] c = "7" -> 7 [] c = "8" -> 8 [] c = "9" -> 9

RECURSIVE DecimalValue(_)
DecimalValue(s) ==
    IF s = <<>> THEN 0
    ELSE 10 * DecimalValue(SubSeq(s, 1, Len(s) - 1)) + DigitValue(s[Len(s)])

\* Number(text) is a finite number: the text, trimmed, is a row of decimal
\* digits (the texts drawn here hold no sign, point, exponent or radix prefix)
IsNumeric(text) ==
    /\ Trim(text) # <<>>
    /\ \A i \in 1..Len(Trim(text)) : Trim(text)[i] \in Digits

\* getString, getNumber, getBoolean and getStringArray: the value when it has
\* the type asked for, a numeric text counting as a number, else undefined
GetString(value) ==
    IF value.type = "string" THEN value ELSE JAbsent

GetNumber(value) ==
    IF value.type = "number" THEN value
    ELSE IF value.type = "string" /\ IsNumeric(value.text)
    THEN JNumber(DecimalValue(Trim(value.text)))
    ELSE JAbsent

GetBoolean(value) ==
    IF value.type = "boolean" THEN value ELSE JAbsent

GetStringArray(value) ==
    IF value.type = "array" /\ \A i \in 1..Len(value.items) : value.items[i].type = "string"
    THEN value
    ELSE JAbsent

\* the fields of a connection configuration and of a permission policy
TextFields == {"host", "user", "password", "database"}

NumberFields == {"port", "connectionLimit", "queueLimit"}

BooleanFields == {"waitForConnections"}

ConnectionFields == TextFields \cup NumberFields \cup BooleanFields

ListFields == {"allowedSqlTypes", "tablePatterns", "allowedDatabases"}

FlagFields == {"allowMultiStatement", "readOnly"}

PermissionFields == ListFields \cup FlagFields

\* the getter loadSourceConfigs and normalizePermissionConfig apply to a field
GetField(field, value) ==
    CASE field \in TextFields -> GetString(value)
      [] field \in NumberFields -> GetNumber(value)
      [] field \in BooleanFields \cup FlagFields -> GetBoolean(value)
      [] field \in ListFields -> GetStringArray(value)

\* what a value that a getter let through stands for in the configuration
\* built from it; the entries of the lists are trimmed, those of
\* allowedSqlTypes put into upper case too
FieldValue(field, value) ==
    CASE field \in TextFields -> value.text
      [] field \in NumberFields -> value.num
      [] field \in BooleanFields \cup FlagFields -> value.bool
      [] field = "allowedSqlTypes" ->
            [i \in 1..Len(value.items) |-> ToUpperCase(Trim(value.items[i].text))]
      [] field \in ListFields \ {"allowedSqlTypes"} ->
            [i \in 1..Len(value.items) |-> Trim(value.items[i].text)]

\* getX(raw[field]) ?? base[field]
FieldOrBase(field, raw, base) ==
    IF GetField(field, raw[field]).type = "undefined"
    THEN base[field]
    ELSE FieldValue(field, GetField(field, raw[field]))

\* parseInt(text): the value of the decimal digits that follow the leading
\* white space, NaN when there is none (the texts drawn hold no sign)
ParseInt(text) ==
    LET from == SpaceRunEnd(text, 1)
        stop == {i \in from..Len(text) : text[i] \notin Digits}
        to == IF stop = {} THEN Len(text) ELSE MinOf(stop) - 1
    IN  IF to < from THEN "NaN" ELSE DecimalValue(SubSeq(text, from, to))

\* text.split(',').map(s => s.trim()) and the same with toUpperCase()
TrimmedList(text) ==
    [i \in 1..Len(Split(text, ",")) |-> Trim(Split(text, ",")[i])]

UpperTrimmedList(text) ==
    [i \in 1..Len(Split(text, ",")) |-> ToUpperCase(Trim(Split(text, ",")[i]))]

\* the environment variables of the modelled deployment, Undefined when not set
ProcessEnv ==
    [DB_HOST |-> <<"d", "b", "0">>,
     DB_USER |-> Undefined,
     DB_PASSWORD |-> <<>>,
     DB_PORT |-> <<"3", "3", "0", "9">>,
     DB_NAME |-> DB_production,
     ALLOWED_SQL_TYPES |-> <<"s", "e", "l", "e", "c", "t", ",", " ", "u", "p", "d", "a", "t", "e">>,
     TABLE_PATTERNS |-> Undefined,
     ALLOWED_DATABASES |-> DB_production,
     READ_ONLY |-> Undefined,
     ALLOW_MULTI_STATEMENT |-> <<"f", "a", "l", "s", "e">>]

LoadPermissionConfig(env) ==
    PermissionConfig(
        IF Truthy(env.ALLOWED_SQL_TYPES) THEN UpperTrimmedList(env.ALLOWED_SQL_TYPES)
        ELSE <<KW_SELECT>>,
        IF Truthy(env.TABLE_PATTERNS) THEN TrimmedList(env.TABLE_PATTERNS) ELSE <<Star>>,
        IF Truthy(env.ALLOWED_DATABASES) THEN TrimmedList(env.ALLOWED_DATABASES) ELSE <<Star>>,
        env.ALLOW_MULTI_STATEMENT = <<"t", "r", "u", "e">>,
        env.READ_ONLY # <<"f", "a", "l", "s", "e">>)

LoadDefaultConnectionConfig(env) ==
    [host |-> OrElse(env.DB_HOST, <<"1", "2", "7", ".", "0", ".", "0", ".", "1">>),
     user |-> OrElse(env.DB_USER, <<"r", "o", "o", "t">>),
     password |-> OrElse(env.DB_PASSWORD, <<>>),
     port |-> ParseInt(OrElse(env.DB_PORT, <<"3", "3", "0", "6">>)),
     database |-> env.DB_NAME,
     waitForConnections |-> TRUE,
     connectionLimit |-> 10,
     queueLimit |-> 0]

\* basePermissions and baseConnection of loadSourceConfigs
BasePermissions == LoadPermissionConfig(ProcessEnv)

BaseConnection == LoadDefaultConnectionConfig(ProcessEnv)

\* normalizePermissionConfig(base, override): override is the value of the
\* property permissions, a record of type and fields
NormalizePermissionConfig(base, override) ==
    IF override.type # "object" THEN base
    ELSE [field \in PermissionFields |-> FieldOrBase(field, override.fields, base)]

\* a raw object of connection fields and one of permission fields
RawFields(fields, given) ==
    [field \in fields |-> IF field \in DOMAIN given THEN given[field] ELSE JAbsent]

\* a raw source definition: type tells whether the value is a plain object,
\* flat are the connection fields written into the definition itself,
\* connection and permissions the values of those two properties
RawSource(type, flat, connection, permissions) ==
    [type |-> type, flat |-> flat, connection |-> connection, permissions |-> permissions]

\* the value of the property connection or permissions: its type, and its
\* fields when it is an object
RawObject(type, fields, given) ==
    [type |-> type, fields |-> RawFields(fields, given)]

\* a resolution that takes the whole base connection as soon as the raw
\* definition lacks one connection field
ResolveSourceAllOrNothing(sourceValue, baseConnection, basePermissions) ==
    LET rawConnection == IF sourceValue.connection.type = "object"
                         THEN sourceValue.connection.fields
                         ELSE sourceValue.flat
    IN  [connection |->
            IF \E field \in ConnectionFields :
                  GetField(field, rawConnection[field]).type = "undefined"
            THEN baseConnection
            ELSE [field \in ConnectionFields |->
                     FieldOrBase(field, rawConnection, baseConnection)],
         permissions |-> NormalizePermissionConfig(basePermissions, sourceValue.permissions)]

\* the source configuration loadSourceConfigs builds from one raw definition
ResolveSource(sourceValue, baseConnection, basePermissions) ==
    LET rawConnection == IF sourceValue.connection.type = "object"
                         THEN sourceValue.connection.fields
                         ELSE sourceValue.flat
    IN  [connection |-> [field \in ConnectionFields |->
                            FieldOrBase(field, rawConnection, baseConnection)],
         permissions |-> NormalizePermissionConfig(basePermissions, sourceValue.permissions)]

\* the spread of the file's sources and then those of MYSQL_SOURCES into one
\* object: the keys of the file in their order, each with the value of
\* MYSQL_SOURCES where that has the key, then the other keys of MYSQL_SOURCES.
\* An object is a sequence of entries [name, value] of different names.
NamesOf(entries) == {entries[i].name : i \in 1..Len(entries)}

ValueIn(entries, name) ==
    entries[CHOOSE i \in 1..Len(entries) : entries[i].name = name].value

RECURSIVE OnlyIn(_, _)
OnlyIn(entries, others) ==
    IF entries = <<>> THEN <<>>
    ELSE IF Head(entries).name \in NamesOf(others)
    THEN OnlyIn(Tail(entries), others)
    ELSE <<Head(entries)>> \o OnlyIn(Tail(entries), others)

\* a spread that merges the two definitions of a key field by field, a field
\* of the file's definition staying where MYSQL_SOURCES gives none
MergeRawSourcesFieldByField(fileParsed, envParsed) ==
    LET Over(f, e) == [k \in DOMAIN e |-> IF e[k].type = "undefined" THEN f[k] ELSE e[k]]
        Both(f, e) ==
            [type |-> e.type,
             flat |-> Over(f.flat, e.flat),
             connection |-> IF e.connection.type = "undefined" THEN f.connection
                            ELSE e.connection,
             permissions |-> IF e.permissions.type = "object" /\ f.permissions.type = "object"
                             THEN [type |-> "object",
                                   fields |-> Over(f.permissions.fields, e.permissions.fields)]
                             ELSE IF e.permissions.type = "undefined" THEN f.permissions
                             ELSE e.permissions]
    IN  [i \in 1..Len(fileParsed) |->
            IF fileParsed[i].name \in NamesOf(envParsed)
            THEN [name |-> fileParsed[i].name,
                  value |-> Both(fileParsed[i].value, ValueIn(envParsed, fileParsed[i].name))]
            ELSE fileParsed[i]]
        \o OnlyIn(envParsed, fileParsed)

\* a spread in which the file's value of a key stays
MergeRawSourcesKeepingFile(fileParsed, envParsed) ==
    fileParsed \o OnlyIn(envParsed, fileParsed)

MergeRawSources(fileParsed, envParsed) ==
    [i \in 1..Len(fileParsed) |->
        IF fileParsed[i].name \in NamesOf(envParsed)
        THEN [name |-> fileParsed[i].name, value |-> ValueIn(envParsed, fileParsed[i].name)]
        ELSE fileParsed[i]]
    \o OnlyIn(envParsed, fileParsed)

\* the name of the synthesized source
N_default == <<"d", "e", "f", "a", "u", "l", "t">>

\* what loadSourceConfigs returns or throws
Loaded(names, sources) == [ok |-> TRUE, error |-> "none", names |-> names, sources |-> sources]

LoadFailed(error) == [ok |-> FALSE, error |-> error, names |-> <<>>, sources |-> <<>>]

\* loadSourceConfigs: fileConfig is what loadServerConfigFile returned
\* (exists, and sources, an object always), rawSources the environment
\* variable MYSQL_SOURCES (kind: unset or empty, malformed JSON, JSON that is
\* no object, an object)
LoadSourceConfigs(fileConfig, rawSources) ==
    IF rawSources.kind = "malformed" THEN LoadFailed("Invalid MYSQL_SOURCES JSON")
    ELSE IF rawSources.kind = "nonobject" THEN LoadFailed("Invalid MYSQL_SOURCES: expected an object")
    ELSE
    LET mergedRawSources ==
            MergeRawSources(IF fileConfig.exists THEN fileConfig.sources ELSE <<>>,
                            IF rawSources.kind = "object" THEN rawSources.entries ELSE <<>>)
        names == [i \in 1..Len(mergedRawSources) |-> mergedRawSources[i].name]
    IN  IF mergedRawSources = <<>>
        THEN Loaded(<<N_default>>,
                    N_default :> [connection |-> BaseConnection, permissions |-> BasePermissions])
        ELSE IF \E i \in 1..Len(mergedRawSources) : mergedRawSources[i].value.type # "object"
        THEN LoadFailed("Invalid source: expected object")
        ELSE Loaded(names,
                    [sourceName \in NamesOf(mergedRawSources) |->
                        ResolveSource(ValueIn(mergedRawSources, sourceName),
                                      BaseConnection, BasePermissions)])

(***************************************************************************)
(* Startup on drawn configurations                                         *)
(***************************************************************************)

\* texts of the drawn definitions
H_db1 == <<"d", "b", "1">>

H_db2 == <<"d", "b", "2">>

U_app == <<"a", "p", "p">>

PW_secret == <<"p", "w">>

\* every field given with its type; the lists need trimming and upper case
D_full ==
    RawSource("object",
        RawFields(ConnectionFields,
            [host |-> JString(H_db1), user |-> JString(U_app), password |-> JString(PW_secret),
             port |-> JNumber(3307), database |-> JString(DB_secret),
             connectionLimit |-> JNumber(5), queueLimit |-> JNumber(1),
             waitForConnections |-> JBoolean(FALSE)]),
        RawObject("undefined", ConnectionFields, <<>>),
        RawObject("object", PermissionFields,
            [allowedSqlTypes |-> JArray(<<JString(<<" ", "s", "e", "l", "e", "c", "t">>),
                                          JString(<<"I", "n", "s", "e", "r", "t", " ">>)>>),
             tablePatterns |-> JArray(<<JString(<<" ", "l", "o", "g", "_", "*">>)>>),
             allowedDatabases |-> JArray(<<JString(DB_secret)>>),
             allowMultiStatement |-> JBoolean(TRUE),
             readOnly |-> JBoolean(FALSE)]))

\* a few fields given: host, the port as a numeric text, an empty password,
\* and of the permissions readOnly and an empty table list
D_partial ==
    RawSource("object",
        RawFields(ConnectionFields,
            [host |-> JString(H_db2), port |-> JString(<<" ", "3", "3", "0", "8">>),
             password |-> JString(<<>>)]),
        RawObject("undefined", ConnectionFields, <<>>),
        RawObject("object", PermissionFields,
            [readOnly |-> JBoolean(FALSE), tablePatterns |-> JArray(<<>>)]))

\* a property connection that gives the user only, beside a flat host; the
\* property permissions is no object
D_nested ==
    RawSource("object",
        RawFields(ConnectionFields, [host |-> JString(H_db1)]),
        RawObject("object", ConnectionFields, [user |-> JString(U_app)]),
        RawObject("string", PermissionFields, <<>>))

\* fields of the wrong types beside a database and allowMultiStatement of
\* the right ones
D_wrong ==
    RawSource("object",
        RawFields(ConnectionFields,
            [host |-> JNumber(1), port |-> JString(<<"a", "b", "c">>),
             database |-> JString(DB_secret), queueLimit |-> JString(<<" ">>),
             waitForConnections |-> JString(<<"f", "a", "l", "s", "e">>)]),
        RawObject("array", ConnectionFields, <<>>),
        RawObject("object", PermissionFields,
            [allowedSqlTypes |-> JArray(<<JString(KW_SELECT), JNumber(1)>>),
             allowedDatabases |-> JString(Star),
             allowMultiStatement |-> JBoolean(TRUE),
             readOnly |-> JString(<<"f", "a", "l", "s", "e">>)]))

\* the empty object
D_empty ==
    RawSource("object", RawFields(ConnectionFields, <<>>),
        RawObject("undefined", ConnectionFields, <<>>),
        RawObject("undefined", PermissionFields, <<>>))

\* a source definition that is a text
D_text ==
    RawSource("string", RawFields(ConnectionFields, <<>>),
        RawObject("undefined", ConnectionFields, <<>>),
        RawObject("undefined", PermissionFields, <<>>))

SourceDefinitions == {D_full, D_partial, D_nested, D_wrong, D_empty, D_text}

SourceNames == {N_rw, N_default}

\* the most source definitions the file and MYSQL_SOURCES hold together
MaxSources == 3

\* objects of n entries of different names
RECURSIVE ObjectsOfSize(_)
ObjectsOfSize(n) ==
    IF n = 0 THEN {<<>>}
    ELSE {Append(o, [name |-> name, value |-> value]) :
             o \in ObjectsOfSize(n - 1),
             name \in SourceNames, value \in SourceDefinitions}

DistinctNames(entries) ==
    \A i \in 1..Len(entries), j \in 1..Len(entries) :
        entries[i].name = entries[j].name => i = j

Objects(n) == {o \in ObjectsOfSize(n) : DistinctNames(o)}

\* the configuration files drawn that hold n sources, and the values of
\* MYSQL_SOURCES drawn that hold n sources at most
FileConfigs(n) ==
    {[exists |-> TRUE, sources |-> o] : o \in Objects(n)}
    \cup (IF n = 0 THEN {[exists |-> FALSE, sources |-> <<>>]} ELSE {})

RawSourcesValues(n) ==
    {[kind |-> k, entries |-> <<>>] : k \in {"unset", "malformed", "nonobject"}}
    \cup {[kind |-> "object", entries |-> o] : o \in UNION {Objects(k) : k \in 0..n}}

\* the process before its module-level constants are computed
InitConfig ==
    /\ \E n \in 0..MaxSources :
       \E fileConfig \in FileConfigs(n), rawSources \in RawSourcesValues(MaxSources - n) :
          /\ probe = [fn |-> "loadSourceConfigs", applied |-> FALSE,
                      fileConfig |-> fileConfig, rawSources |-> rawSources,
                      out |-> LoadFailed("none")]
    /\ process = "loading"
    /\ shutdown = NoShutdown
    /\ SOURCE_CONFIGS = <<>>
    /\ DEFAULT_SOURCE = Undefined
    /\ POOLS = <<>>
    /\ created = <<>>
    /\ running = NoCall
    /\ pc = [c \in Calls |-> "idle"]
    /\ req = [c \in Calls |-> NoReq]
    /\ local = [c \in Calls |-> NoLocal]
    /\ sent = [c \in Calls |-> <<>>]
    /\ response = [c \in Calls |-> NoResponse]

\* const SOURCE_CONFIGS = loadSourceConfigs(): an exception thrown while the
\* module is loaded ends the process
SetSourceConfigs ==
    /\ process = "loading"
    /\ probe.fn = "loadSourceConfigs"
    /\ ~probe.applied
    /\ LET out == LoadSourceConfigs(probe.fileConfig, probe.rawSources)
       IN  /\ probe' = [probe EXCEPT !.applied = TRUE, !.out = out]
           /\ SOURCE_CONFIGS' = out.sources
           /\ process' = IF out.ok THEN "loaded" ELSE "failed"
    /\ UNCHANGED <<shutdown, DEFAULT_SOURCE, POOLS, created, running,
                   pc, req, local, sent, response>>

NextConfig == SetSourceConfigs

SpecConfig == InitConfig /\ [][NextConfig]_vars

(***************************************************************************)
(* Startup: the module constants and main                                  *)
(***************************************************************************)

\* objects of source definitions a file or MYSQL_SOURCES may hold
O_two == <<[name |-> N_rw, value |-> D_partial], [name |-> N_default, value |-> D_full]>>

O_one == <<[name |-> N_default, value |-> D_empty]>>

O_nested == <<[name |-> N_rw, value |-> D_nested]>>

O_text == <<[name |-> N_rw, value |-> D_text]>>

\* the configuration files of the drawn startups: none, or one with or
\* without a defaultSource
StartupFiles ==
    {[exists |-> FALSE, defaultSource |-> Undefined, sources |-> <<>>]}
    \cup {[exists |-> TRUE, defaultSource |-> d, sources |-> o] :
             d \in {Undefined, N_default, N_nosuch}, o \in {<<>>, O_two, O_one, O_text}}

\* the values of MYSQL_SOURCES of the drawn startups
StartupRawSources ==
    {[kind |-> k, entries |-> <<>>] : k \in {"unset", "malformed", "nonobject"}}
    \cup {[kind |-> "object", entries |-> o] : o \in {<<>>, O_nested, O_text}}

\* the values of the environment variable DEFAULT_SOURCE
DefaultSourceValues == {Undefined, <<>>, N_rw, N_nosuch}

InitStartup ==
    /\ \E fileConfig \in StartupFiles, rawSources \in StartupRawSources,
          defaultSource \in DefaultSourceValues :
          probe = [fn |-> "loadSourceConfigs", applied |-> FALSE,
                   fileConfig |-> fileConfig, rawSources |-> rawSources,
                   DEFAULT_SOURCE |-> defaultSource,
                   out |-> LoadFailed("none")]
    /\ process = "loading"
    /\ shutdown = NoShutdown
    /\ SOURCE_CONFIGS = <<>>
    /\ DEFAULT_SOURCE = Undefined
    /\ POOLS = <<>>
    /\ created = <<>>
    /\ running = NoCall
    /\ pc = [c \in Calls |-> "idle"]
    /\ req = [c \in Calls |-> NoReq]
    /\ local = [c \in Calls |-> NoLocal]
    /\ sent = [c \in Calls |-> <<>>]
    /\ response = [c \in Calls |-> NoResponse]

\* const DEFAULT_SOURCE = process.env.DEFAULT_SOURCE || FILE_CONFIG?.defaultSource
\* || Object.keys(SOURCE_CONFIGS)[0]; main is called next
SetDefaultSource ==
    /\ process = "loaded"
    /\ DEFAULT_SOURCE' =
          OrElse(probe.DEFAULT_SOURCE,
                 OrElse(IF probe.fileConfig.exists THEN probe.fileConfig.defaultSource
                        ELSE Undefined,
                        probe.out.names[1]))
    /\ process' = "starting"
    /\ UNCHANGED <<probe, shutdown, SOURCE_CONFIGS, POOLS, created, running,
                   pc, req, local, sent, response>>

\* the pools getPool(sourceName) has made and cached when main has called it
\* for the first n of the names, one after the other
RECURSIVE PoolsAfterTesting(_, _)
PoolsAfterTesting(names, n) ==
    IF n = 0 THEN [POOLS |-> POOLS, created |-> created]
    ELSE LET before == PoolsAfterTesting(names, n - 1)
             key == PoolKey(names[n], Undefined)
         IN  IF key \in DOMAIN before.POOLS THEN before
             ELSE [POOLS |-> before.POOLS @@
                        (key :> [id |-> Len(before.created) + 1,
                                 database |-> NewPool(names[n], Undefined).database]),
                   created |-> Append(before.created, [key |-> key, by |-> NoCall])]

\* main with TEST_ALL_SOURCES=true: every configured source is tested in the
\* order of Object.keys(SOURCE_CONFIGS); the first failing connection ends
\* the process, and when all pass the transport is connected
StartTestingAll ==
    /\ process = "starting"
    /\ \E n \in 1..Len(probe.out.names) :
          /\ POOLS' = PoolsAfterTesting(probe.out.names, n).POOLS
          /\ created' = PoolsAfterTesting(probe.out.names, n).created
          /\ process' \in IF n = Len(probe.out.names) THEN {"serving", "exited"}
                          ELSE {"exited"}
    /\ UNCHANGED <<probe, shutdown, SOURCE_CONFIGS, DEFAULT_SOURCE, running, pc, req, local, sent,
                   response>>

NextStartup ==
    \/ SetSourceConfigs
    \/ SetDefaultSource
    \/ StartSkippingTest
    \/ StartTestingDefault
    \/ StartTestingAll

SpecStartup == InitStartup /\ [][NextStartup]_vars

(***************************************************************************)
(* matchesPattern applied to drawn texts and growing pattern lists         *)
(***************************************************************************)

\* a table name in upper case
T_OPEN_X == <<"O", "P", "E", "N", "_", "X">>

MatchTexts == {T_open_orders, T_secret_users, T_log_1, T_OPEN_X, DB_production}

MatchPatterns == {Star, P_open, P_users, P_log, DB_production}

\* the longest pattern list drawn
MaxPatterns == 3

InitMatch ==
    /\ \E text \in MatchTexts :
          probe = [fn |-> "matchesPattern", applied |-> FALSE, text |-> text,
                   patterns |-> <<>>, out |-> FALSE]
    /\ process = "starting"
    /\ shutdown = NoShutdown
    /\ SOURCE_CONFIGS = ConfiguredSources
    /\ DEFAULT_SOURCE = N_prod
    /\ POOLS = <<>>
    /\ created = <<>>
    /\ running = NoCall
    /\ pc = [c \in Calls |-> "idle"]
    /\ req = [c \in Calls |-> NoReq]
    /\ local = [c \in Calls |-> NoLocal]
    /\ sent = [c \in Calls |-> <<>>]
    /\ response = [c \in Calls |-> NoResponse]

\* matchesPattern(text, patterns) on the list as it is
ApplyMatchesPattern ==
    /\ probe.fn = "matchesPattern"
    /\ ~probe.applied
    /\ probe' = [probe EXCEPT !.applied = TRUE,
                              !.out = MatchesPattern(probe.text, probe.patterns)]
    /\ UNCHANGED <<process, shutdown, SOURCE_CONFIGS, DEFAULT_SOURCE, POOLS, created, running,
                   pc, req, local, sent, response>>

\* matchesPattern(text, patterns) again, a pattern having been put into the
\* list at any place
ApplyWithPatternAdded ==
    /\ probe.fn = "matchesPattern"
    /\ probe.applied
    /\ Len(probe.patterns) < MaxPatterns
    /\ \E pattern \in MatchPatterns, at \in 0..Len(probe.patterns) :
          LET patterns == SubSeq(probe.patterns, 1, at) \o <<pattern>>
                          \o SubSeq(probe.patterns, at + 1, Len(probe.patterns))
          IN  probe' = [probe EXCEPT !.patterns = patterns,
                                     !.out = MatchesPattern(probe.text, patterns)]
    /\ UNCHANGED <<process, shutdown, SOURCE_CONFIGS, DEFAULT_SOURCE, POOLS, created, running,
                   pc, req, local, sent, response>>

NextMatch == ApplyMatchesPattern \/ ApplyWithPatternAdded

SpecMatch == InitMatch /\ [][NextMatch]_vars

(***************************************************************************)
(* validateSqlType applied to every keyword in several spellings           *)
(***************************************************************************)

ToLowerChar(c) ==
    IF \E i \in 1..26 : UpperLetters[i] = c
    THEN LowerLetters[CHOOSE i \in 1..26 : UpperLetters[i] = c]
    ELSE c

\* a keyword in upper case, in lower case, and in letters of alternating case
Spellings(word) ==
    {word,
     [i \in 1..Len(word) |-> ToLowerChar(word[i])],
     [i \in 1..Len(word) |-> IF i % 2 = 0 THEN word[i] ELSE ToLowerChar(word[i])]}

\* what stands before and after the keyword in the drawn texts
Leads == {<<>>, <<" ", "\t", "\n">>}

Rests == {<<>>, <<" ", "x", " ">>, <<"d">>, <<"(">>}

\* texts that begin with no keyword: another word, a keyword that is cut, one
\* that follows a parenthesis, nothing
Keywordless ==
    {<<>>, <<" ">>, <<"G", "R", "A", "N", "T", " ", "x">>, <<"S", "E", "L", " ", "E", "C", "T">>,
     <<"(", "S", "E", "L", "E", "C", "T", " ", "1", ")">>, <<"E", "L", "E", "C", "T">>,
     <<"U", "S">>}

KeywordTexts ==
    {lead \o spelling \o rest :
        lead \in Leads, rest \in Rests,
        spelling \in UNION {Spellings(SqlTypeKeywords[i]) : i \in 1..Len(SqlTypeKeywords)}}
    \cup Keywordless

\* a policy that lets every type through, and one that lets none
KeywordPolicies ==
    {PermissionConfig(<<Star>>, <<Star>>, <<Star>>, TRUE, FALSE),
     PermissionConfig(<<>>, <<Star>>, <<Star>>, TRUE, FALSE)}

InitClassify ==
    /\ \E sql \in KeywordTexts, permissionConfig \in KeywordPolicies :
          probe = [fn |-> "validateSqlType", applied |-> FALSE, sql |-> sql,
                   permissionConfig |-> permissionConfig]
    /\ process = "starting"
    /\ shutdown = NoShutdown
    /\ SOURCE_CONFIGS = ConfiguredSources
    /\ DEFAULT_SOURCE = N_prod
    /\ POOLS = <<>>
    /\ created = <<>>
    /\ running = NoCall
    /\ pc = [c \in Calls |-> "idle"]
    /\ req = [c \in Calls |-> NoReq]
    /\ local = [c \in Calls |-> NoLocal]
    /\ sent = [c \in Calls |-> <<>>]
    /\ response = [c \in Calls |-> NoResponse]

NextClassify == ApplyValidateSqlType

SpecClassify == InitClassify /\ [][NextClassify]_vars

(***************************************************************************)
(* extractTableRefs applied to one drawn text after the other              *)
(***************************************************************************)

\* FROM t JOIN t JOIN T JOIN d.t: one table three times, once in capitals
\* and once qualified
Q_Repeated ==
    <<"F", "R", "O", "M", " ", "t", " ", "J", "O", "I", "N", " ", "t", " ",
      "J", "O", "I", "N", " ", "T", " ", "j", "o", "i", "n", " ", "d", ".", "t", " ",
      "J", "O", "I", "N", " ", "d", " ", ".", " ", "t">>

\* FROM a.b.c: three segments
Q_ThreeSegments ==
    <<"F", "R", "O", "M", " ", "a", ".", "b", ".", "c">>

\* FROM followed by quotes only, and FROM followed by a parenthesis
Q_QuotesOnly == <<"F", "R", "O", "M", " ", BackQuote, BackQuote>>

Q_Subquery == <<"F", "R", "O", "M", " ", "(", "x", ")">>

\* the identifiers of the drawn clauses as lists of segments, none to three
SegmentLists ==
    {<<>>, <<<<"a">>>>, <<<<"a">>, <<"b">>>>, <<<<"a">>, <<"b">>, <<"c">>>>}

\* the segments with a dot between them
RECURSIVE Dotted(_)
Dotted(segments) ==
    IF segments = <<>> THEN <<>>
    ELSE IF Len(segments) = 1 THEN Head(segments)
    ELSE Head(segments) \o <<".">> \o Dotted(Tail(segments))

\* the clause FROM followed by the identifier of the segments
FromClause(segments) == KW_FROM \o <<" ">> \o Dotted(segments)

ExtractTexts ==
    {Q_Repeated, Q_ThreeSegments, Q_QuotesOnly, Q_Subquery, Q_Select1, Q_SelectOpen,
     Q_QualifiedSecret, Q_InsertDelete}
        \cup {FromClause(segments) : segments \in SegmentLists}

\* the most extractions in a row
MaxExtractions == 3

\* calls are the extractions made so far, each with its text and its result
InitExtract ==
    /\ probe = [fn |-> "extractTableRefs", calls |-> <<>>]
    /\ process = "starting"
    /\ shutdown = NoShutdown
    /\ SOURCE_CONFIGS = ConfiguredSources
    /\ DEFAULT_SOURCE = N_prod
    /\ POOLS = <<>>
    /\ created = <<>>
    /\ running = NoCall
    /\ pc = [c \in Calls |-> "idle"]
    /\ req = [c \in Calls |-> NoReq]
    /\ local = [c \in Calls |-> NoLocal]
    /\ sent = [c \in Calls |-> <<>>]
    /\ response = [c \in Calls |-> NoResponse]

\* extractTableRefs(sql): a synchronous call, its regular expressions made
\* anew by the call
ApplyExtractTableRefs ==
    /\ probe.fn = "extractTableRefs"
    /\ Len(probe.calls) < MaxExtractions
    /\ \E sql \in ExtractTexts :
          probe' = [probe EXCEPT !.calls =
                       Append(@, [sql |-> sql, refs |-> ExtractTableRefs(sql)])]
    /\ UNCHANGED <<process, shutdown, SOURCE_CONFIGS, DEFAULT_SOURCE, POOLS, created, running,
                   pc, req, local, sent, response>>

NextExtract == ApplyExtractTableRefs

SpecExtract == InitExtract /\ [][NextExtract]_vars

(***************************************************************************)
(* The single-source server of the first release (unnamed/part_000) and    *)
(* the handler on the configuration of the environment alone               *)
(***************************************************************************)

\* the capture group of the eight regular expressions of extractTableNames
\* at index p: one run of word characters and back quotes
LegacyGroupAt(sql, p) ==
    LET idEnd == IdentRunEnd(sql, p)
    IN  IF idEnd = p THEN NoMatch
        ELSE [ok |-> TRUE, end |-> idEnd, group |-> SubSeq(sql, p, idEnd - 1)]

RECURSIVE LegacyMatchAt(_, _, _)
LegacyMatchAt(sql, p, words) ==
    IF words = <<>> THEN LegacyGroupAt(sql, p)
    ELSE LET afterWord == p + Len(Head(words))
             afterSpace == SpaceRunEnd(sql, afterWord)
         IN  IF MatchesWordAt(sql, p, Head(words)) /\ afterSpace > afterWord
             THEN LegacyMatchAt(sql, afterSpace, Tail(words))
             ELSE NoMatch

RECURSIVE LegacyExecAll(_, _, _)
LegacyExecAll(sql, words, lastIndex) ==
    LET starts == {p \in lastIndex..Len(sql) : LegacyMatchAt(sql, p, words).ok}
    IN  IF starts = {} THEN <<>>
        ELSE LET m == LegacyMatchAt(sql, MinOf(starts), words)
             IN  <<m.group>> \o LegacyExecAll(sql, words, m.end)

RECURSIVE LegacyAllGroups(_, _)
LegacyAllGroups(sql, patterns) ==
    IF patterns = <<>> THEN <<>>
    ELSE LegacyExecAll(sql, Head(patterns), 1) \o LegacyAllGroups(sql, Tail(patterns))

\* tables.push(table) unless tables includes it; table is match[1] without quotes
RECURSIVE LegacyPushTables(_, _)
LegacyPushTables(tables, groups) ==
    IF groups = <<>> THEN tables
    ELSE IF ListIncludes(tables, StripQuotes(Head(groups)))
    THEN LegacyPushTables(tables, Tail(groups))
    ELSE LegacyPushTables(Append(tables, StripQuotes(Head(groups))), Tail(groups))

\* extractTableNames of the single-source server
ExtractTableNames(sql) == LegacyPushTables(<<>>, LegacyAllGroups(sql, RefPatterns))

\* the decision of a handler: the denial it answers with, or none when it
\* calls executeQuery
Denied(error) == [denied |-> TRUE, error |-> error]

Forwarded == [denied |-> FALSE, error |-> [kind |-> "none"]]

\* the loop of case mysql_query of the single-source server over tableNames
RECURSIVE LegacyCheckTables(_, _, _)
LegacyCheckTables(tableNames, database, permissionConfig) ==
    IF tableNames = <<>> THEN Forwarded
    ELSE LET tableValidation ==
                 ValidateTableAccess(Head(tableNames), permissionConfig, database)
         IN  IF ~tableValidation.valid THEN Denied(tableValidation.error)
             ELSE LegacyCheckTables(Tail(tableNames), database, permissionConfig)

\* case mysql_query of the single-source server up to executeQuery, its
\* PERMISSION_CONFIG being loadPermissionConfig() of the environment
LegacyMysqlQuery(sql, database, env) ==
    LET sqlValidation == ValidateSqlType(sql, LoadPermissionConfig(env))
    IN  IF ~sqlValidation.valid THEN Denied(sqlValidation.error)
        ELSE LegacyCheckTables(ExtractTableNames(sql), database, LoadPermissionConfig(env))

\* the environments of the drawn deployments
Env_secretDefault ==
    [ProcessEnv EXCEPT !.DB_NAME = DB_secret,
                       !.ALLOWED_SQL_TYPES = Star,
                       !.TABLE_PATTERNS = P_open \o <<",", " ">> \o P_log,
                       !.READ_ONLY = <<"f", "a", "l", "s", "e">>,
                       !.ALLOW_MULTI_STATEMENT = <<"t", "r", "u", "e">>]

Env_noDefault ==
    [ProcessEnv EXCEPT !.DB_NAME = Undefined, !.TABLE_PATTERNS = P_open,
                       !.ALLOWED_SQL_TYPES = Undefined]

Env_readOnlyWildcard == [ProcessEnv EXCEPT !.ALLOWED_SQL_TYPES = Star]

LegacyEnvs == {ProcessEnv, Env_secretDefault, Env_noDefault, Env_readOnlyWildcard}

\* mysql_query invocations as the single-source server takes them: sql and
\* database, no source
LegacyRequests ==
    {[name |-> "mysql_query", source |-> Undefined, sql |-> q, database |-> d,
      pattern |-> Undefined] : q \in SqlTexts, d \in DatabaseArgs}

\* the multi-source server started without configuration file and without
\* MYSQL_SOURCES: the one source default, built from the environment
InitLegacy ==
    /\ \E env \in LegacyEnvs :
          /\ probe = [fn |-> "legacy", applied |-> FALSE, env |-> env]
          /\ SOURCE_CONFIGS =
                N_default :> [connection |-> LoadDefaultConnectionConfig(env),
                              permissions |-> LoadPermissionConfig(env)]
    /\ DEFAULT_SOURCE = N_default
    /\ process = "starting"
    /\ shutdown = NoShutdown
    /\ POOLS = <<>>
    /\ created = <<>>
    /\ running = NoCall
    /\ pc = [c \in Calls |-> "idle"]
    /\ req = [c \in Calls |-> NoReq]
    /\ local = [c \in Calls |-> NoLocal]
    /\ sent = [c \in Calls |-> <<>>]
    /\ response = [c \in Calls |-> NoResponse]

NextLegacy ==
    \/ StartSkippingTest
    \/ StartTestingDefault
    \/ \E c \in Calls :
        \/ OneAtATime(c) /\ Arrive(c, LegacyRequests)
        \/ Resolve(c)
        \/ Classify(c)
        \/ Extract(c)
        \/ CheckRef(c)
        \/ ExecuteQuery(c)
        \/ ConnectionAcquired(c)
        \/ ConnectionRejected(c)
        \/ ExecuteResolved(c)
        \/ ExecuteRejected(c)
        \/ Return(c)

SpecLegacy == InitLegacy /\ [][NextLegacy]_vars

(***************************************************************************)
(* Vocabulary of the properties                                            *)
(***************************************************************************)

\* the call is a mysql_query with a text for sql
IsQuery(c) == req[c].name = "mysql_query" /\ req[c].sql \in SqlTexts

\* the references extractTableRefs finds in each text an invocation may carry
ExtractedFrom == [sql \in SqlTexts |-> ExtractTableRefs(sql)]

\* the call has passed getSourceConfig
Resolved(c) == local[c].sourceName \in DOMAIN SOURCE_CONFIGS

\* the call has looked up or created a pool, waits on one, or has handed a
\* statement to connection.execute
ReachedDatabase(c) ==
    \/ local[c].pool # NoPool
    \/ sent[c] # <<>>
    \/ pc[c] \in {"awaitConnection", "awaitExecute"}
    \/ \E i \in 1..Len(created) : created[i].by = c

\* the response is a refusal by the policy or by the registry
Refused(c) ==
    pc[c] = "done" /\ response[c].kind \in {"permission-denied", "tool-execution-error"}

\* the call was refused by the access check of the reference local[c].refIdx
DeniedAtReference(c) ==
    /\ IsQuery(c)
    /\ pc[c] = "done"
    /\ response[c].kind = "permission-denied"
    /\ local[c].refIdx >= 1

\* the text holds two statements: a semicolon stands between two characters
\* that are neither blank nor a semicolon
SeveralStatements(sql) ==
    \E i \in 1..Len(sql), k \in 1..Len(sql), j \in 1..Len(sql) :
        /\ i < k /\ k < j
        /\ sql[k] = ";"
        /\ ~IsSpace(sql[i]) /\ sql[i] # ";"
        /\ ~IsSpace(sql[j]) /\ sql[j] # ";"

\* the statement type of a text as the classifier detects it
TypeOf(sql) == DetectSqlType(ToUpperCase(Trim(sql)))

SafeTypes == {KW_SELECT, KW_EXPLAIN, KW_SHOW, KW_DESCRIBE}

InList(list, x) == \E i \in 1..Len(list) : list[i] = x

AllowListFails(sql, p) ==
    ~InList(p.allowedSqlTypes, TypeOf(sql)) /\ ~InList(p.allowedSqlTypes, Star)

ReadOnlyFails(sql, p) == p.readOnly /\ TypeOf(sql) \notin SafeTypes

MultiStatementFails(sql, p) == ~p.allowMultiStatement /\ SeveralStatements(sql)

\* qualifier, else the argument of the caller, else the default of the source
EffectiveOf(c, ref) ==
    IF Truthy(ref.database) THEN ref.database
    ELSE IF Truthy(req[c].database) THEN req[c].database
    ELSE SOURCE_CONFIGS[local[c].sourceName].connection.database

DatabaseFails(c, ref) ==
    /\ Truthy(EffectiveOf(c, ref))
    /\ ~MatchesPattern(EffectiveOf(c, ref), PermissionsOf(c).allowedDatabases)

TableFails(c, ref) == ~MatchesPattern(ref.table, PermissionsOf(c).tablePatterns)

(***************************************************************************)
(* C1                                                                      *)
(***************************************************************************)

\* C1: in mysql_query the statement reaches the database (a pool is looked
\* up or created, a connection is asked for, the text is executed) only after
\* the source was resolved, then the classifier permitted the text, then
\* every extracted reference passed the access check; a call that one of the
\* steps refused has created no pool, used none and executed nothing.
C1_CheckedBeforeExecuted ==
    \A c \in Calls : IsQuery(c) =>
        /\ pc[c] \in {"classify", "extract", "checkRef", "executeQuery",
                      "awaitConnection", "awaitExecute"} => Resolved(c)
        /\ (pc[c] \in {"extract", "checkRef", "executeQuery", "awaitConnection",
                       "awaitExecute"} \/ local[c].refIdx > 0)
              => /\ Resolved(c)
                 /\ ValidateSqlType(req[c].sql, PermissionsOf(c)).valid
        /\ pc[c] = "checkRef"
              => /\ local[c].tableRefs = ExtractedFrom[req[c].sql]
                 /\ \A i \in 1..Len(local[c].tableRefs) :
                        i < local[c].refIdx => CheckOf(c, local[c].tableRefs[i]).valid
        /\ (pc[c] = "executeQuery" \/ ReachedDatabase(c))
              => /\ Resolved(c)
                 /\ ValidateSqlType(req[c].sql, PermissionsOf(c)).valid
                 /\ LET refs == ExtractedFrom[req[c].sql]
                    IN  \A i \in 1..Len(refs) : CheckOf(c, refs[i]).valid
        /\ Refused(c) => ~ReachedDatabase(c)
        /\ \A i \in 1..Len(sent[c]) : sent[c][i].sql = req[c].sql

\* a query with two references or more is being executed
C1_Witness ==
    \E c \in Calls :
        /\ IsQuery(c)
        /\ pc[c] = "awaitExecute"
        /\ Len(local[c].tableRefs) >= 2
        /\ sent[c] # <<>>

(***************************************************************************)
(* C2                                                                      *)
(***************************************************************************)

\* C2: with readOnly true the classifier denies every text whose type is not
\* SELECT, EXPLAIN, SHOW or DESCRIBE, the wildcard in allowedSqlTypes
\* notwithstanding: allowedSqlTypes [*] with readOnly denies UPDATE t SET x=1
\* with the read-only reason and permits SELECT 1; the read-only reason is
\* given only to a text that passed the allow-list, and every text that
\* passed the checks before it and is not of a safe type gets it.
C2_ReadOnlyGate ==
    probe.applied =>
        LET p == probe.permissionConfig
            sql == probe.sql
            out == probe.out
        IN  /\ ReadOnlyFails(sql, p) => ~out.valid
            /\ (p.allowedSqlTypes = <<Star>> /\ p.readOnly /\ sql = Q_UpdateT)
                  => out = [valid |-> FALSE, error |-> ErrReadOnly]
            /\ (p.allowedSqlTypes = <<Star>> /\ p.readOnly /\ sql = Q_Select1)
                  => out.valid
            /\ (~out.valid /\ out.error.kind = "read-only")
                  => ~AllowListFails(sql, p) /\ ReadOnlyFails(sql, p)
            /\ (ReadOnlyFails(sql, p) /\ ~AllowListFails(sql, p)
                    /\ ~MultiStatementFails(sql, p))
                  => out = [valid |-> FALSE, error |-> ErrReadOnly]

\* UPDATE t SET x=1 was denied as read-only under the wildcard allow-list
C2_Witness ==
    /\ probe.applied
    /\ probe.sql = Q_UpdateT
    /\ probe.permissionConfig.allowedSqlTypes = <<Star>>
    /\ probe.permissionConfig.readOnly
    /\ probe.out = [valid |-> FALSE, error |-> ErrReadOnly]

(***************************************************************************)
(* C3                                                                      *)
(***************************************************************************)

\* C3: the classifier denies with the multi-statement reason exactly when
\* allowMultiStatement is false and the text holds more than one non-blank
\* segment between semicolons; a statement followed by semicolons and blanks
\* only is not denied for this reason, SELECT 1; DROP TABLE open_orders is,
\* and with allowMultiStatement true nothing is.
C3_MultiStatement ==
    probe.applied =>
        LET p == probe.permissionConfig
            sql == probe.sql
            out == probe.out
        IN  /\ (~out.valid /\ out.error.kind = "multi-statement")
                  <=> (~p.allowMultiStatement /\ SeveralStatements(sql))
            /\ (sql = Q_SelectDrop /\ ~p.allowMultiStatement)
                  => out = [valid |-> FALSE, error |-> ErrMultiStatement]
            /\ (sql \in {Q_TrailingSemis, Q_LowerTrailing, Q_OnlySemis} /\ ~out.valid)
                  => out.error.kind # "multi-statement"

\* SELECT 1; DROP TABLE open_orders was denied as a multi-statement query
C3_Witness ==
    /\ probe.applied
    /\ probe.sql = Q_SelectDrop
    /\ ~probe.permissionConfig.allowMultiStatement
    /\ probe.out = [valid |-> FALSE, error |-> ErrMultiStatement]

(***************************************************************************)
(* C4                                                                      *)
(***************************************************************************)

\* C4: a query one of whose extracted references fails the database or the
\* table check is denied as a whole and never reaches the database, however
\* many of its other references pass and wherever the failing one stands.
C4_FailClosed ==
    \A c \in Calls :
        (/\ IsQuery(c)
         /\ Resolved(c)
         /\ LET refs == ExtractedFrom[req[c].sql]
            IN  \E i \in 1..Len(refs) : DatabaseFails(c, refs[i]) \/ TableFails(c, refs[i]))
        => /\ ~ReachedDatabase(c)
           /\ pc[c] # "executeQuery"
           /\ pc[c] = "done" => response[c].kind = "permission-denied"

\* a query of three references was denied at its second one, the first and
\* the third being allowed
C4_Witness ==
    \E c \in Calls :
        /\ DeniedAtReference(c)
        /\ Len(local[c].tableRefs) = 3
        /\ local[c].refIdx = 2
        /\ ~TableFails(c, local[c].tableRefs[1])
        /\ ~TableFails(c, local[c].tableRefs[3])
        /\ response[c] = PermissionDenied(ErrTable(local[c].tableRefs[2].table))

(***************************************************************************)
(* C5                                                                      *)
(***************************************************************************)

\* C5 as stated: a query refused at a reference whose table no entry of
\* tablePatterns matches is refused with the table reason naming the table.
C5_TableReasonWheneverUnmatched ==
    \A c \in Calls :
        DeniedAtReference(c) =>
            LET ref == local[c].tableRefs[local[c].refIdx]
            IN  TableFails(c, ref) => response[c] = PermissionDenied(ErrTable(ref.table))

\* C5: under the scenario policy SELECT * FROM open_orders is permitted and
\* handed to the database, SELECT * FROM secret_users is denied with the
\* table reason naming secret_users; a query is never executed past a
\* reference whose table no pattern matches, and it is refused with the table
\* reason naming the table when the effective database of the reference is
\* absent or allowed, with the database reason otherwise.
C5_TableReason ==
    \A c \in Calls : (IsQuery(c) /\ Resolved(c)) =>
        /\ (PermissionsOf(c) = ScenarioPolicy /\ req[c].sql = Q_SelectOpen)
              => /\ pc[c] = "done" => /\ response[c].kind \in {"query-ok", "query-failed"}
                                      /\ ReachedDatabase(c)
                 /\ \A i \in 1..Len(sent[c]) : sent[c][i].sql = Q_SelectOpen
        /\ (PermissionsOf(c) = ScenarioPolicy /\ req[c].sql = Q_SelectSecret)
              => /\ ~ReachedDatabase(c)
                 /\ pc[c] = "done"
                       => response[c] = PermissionDenied(ErrTable(T_secret_users))
        /\ (\E i \in 1..Len(local[c].tableRefs) : TableFails(c, local[c].tableRefs[i]))
              => ~ReachedDatabase(c) /\ pc[c] # "executeQuery"
        /\ DeniedAtReference(c) =>
              LET ref == local[c].tableRefs[local[c].refIdx]
              IN  response[c] =
                      IF DatabaseFails(c, ref)
                      THEN PermissionDenied(ErrDatabase(EffectiveOf(c, ref)))
                      ELSE PermissionDenied(ErrTable(ref.table))

\* SELECT * FROM secret_users was denied under the scenario policy
C5_Witness ==
    \E c \in Calls :
        /\ DeniedAtReference(c)
        /\ PermissionsOf(c) = ScenarioPolicy
        /\ req[c].sql = Q_SelectSecret
        /\ response[c] = PermissionDenied(ErrTable(T_secret_users))

(***************************************************************************)
(* C6                                                                      *)
(***************************************************************************)

\* C6: the effective database of a reference is its qualifier, else the
\* database argument of the caller, else the default database of the source;
\* a query with a reference whose effective database exists and is not
\* matched by allowedDatabases never reaches the database, and the reference
\* the query is refused at reports the database reason naming that database
\* whenever its database fails, the table failing too or not, the table
\* reason otherwise.
C6_DatabaseBeforeTable ==
    \A c \in Calls : (IsQuery(c) /\ Resolved(c)) =>
        /\ LET refs == ExtractedFrom[req[c].sql]
           IN  (\E i \in 1..Len(refs) : DatabaseFails(c, refs[i]))
                  => /\ ~ReachedDatabase(c)
                     /\ pc[c] = "done" => response[c].kind = "permission-denied"
        /\ \A i \in 1..Len(local[c].tableRefs) :
              EffectiveDatabase(c, local[c].tableRefs[i])
                  = EffectiveOf(c, local[c].tableRefs[i])
        /\ DeniedAtReference(c) =>
              LET ref == local[c].tableRefs[local[c].refIdx]
              IN  /\ DatabaseFails(c, ref)
                        => response[c] = PermissionDenied(ErrDatabase(EffectiveOf(c, ref)))
                  /\ ~DatabaseFails(c, ref) => response[c].error.kind = "table"

\* a reference qualified with a forbidden database and naming a forbidden
\* table was refused with the database reason, the caller having named an
\* allowed database
C6_Witness ==
    \E c \in Calls :
        /\ DeniedAtReference(c)
        /\ LET ref == local[c].tableRefs[local[c].refIdx]
           IN  /\ Truthy(ref.database)
               /\ Truthy(req[c].database)
               /\ ref.database # req[c].database
               /\ MatchesPattern(req[c].database, PermissionsOf(c).allowedDatabases)
               /\ TableFails(c, ref)
               /\ response[c] = PermissionDenied(ErrDatabase(ref.database))

(***************************************************************************)
(* C7                                                                      *)
(***************************************************************************)

\* C7: the classifier answers with the reason of the first failing check in
\* the order multi-statement, allow-list (on the detected type), read-only,
\* and permits the text when none fails: failing the multi-statement check
\* and the allow-list gives the multi-statement reason, failing the
\* allow-list and the read-only gate gives the type-not-allowed reason.
C7_FirstFailingCheck ==
    probe.applied =>
        LET p == probe.permissionConfig
            sql == probe.sql
        IN  probe.out =
                IF MultiStatementFails(sql, p)
                THEN [valid |-> FALSE, error |-> ErrMultiStatement]
                ELSE IF AllowListFails(sql, p)
                THEN [valid |-> FALSE,
                      error |-> ErrSqlType(TypeOf(sql), p.allowedSqlTypes)]
                ELSE IF ReadOnlyFails(sql, p)
                THEN [valid |-> FALSE, error |-> ErrReadOnly]
                ELSE [valid |-> TRUE, sqlType |-> TypeOf(sql)]

\* a text failing the multi-statement check and the allow-list was given the
\* multi-statement reason
C7_Witness ==
    /\ probe.applied
    /\ MultiStatementFails(probe.sql, probe.permissionConfig)
    /\ AllowListFails(probe.sql, probe.permissionConfig)
    /\ ReadOnlyFails(probe.sql, probe.permissionConfig)
    /\ probe.out.error.kind = "multi-statement"

(***************************************************************************)
(* C8                                                                      *)
(***************************************************************************)

\* C8 as stated: under the scenario policy UPDATE open_orders SET x=1 is
\* denied with the read-only reason.
C8_UpdateDeniedAsReadOnly ==
    \A c \in Calls :
        (/\ IsQuery(c) /\ Resolved(c)
         /\ PermissionsOf(c) = ScenarioPolicy
         /\ req[c].sql = Q_UpdateOpen
         /\ pc[c] = "done")
        => response[c] = PermissionDenied(ErrReadOnly)

\* C8: under the scenario policy UPDATE open_orders SET x=1 is denied by the
\* classifier, before any reference is looked at and without reaching the
\* database, with the reason that the type UPDATE is not among the allowed
\* types SELECT, and with no other reason.
C8_UpdateDeniedAsTypeNotAllowed ==
    \A c \in Calls :
        (/\ IsQuery(c) /\ Resolved(c)
         /\ PermissionsOf(c) = ScenarioPolicy
         /\ req[c].sql = Q_UpdateOpen)
        => /\ ~ReachedDatabase(c)
           /\ local[c].refIdx = 0
           /\ pc[c] \in {"classify", "done"}
           /\ pc[c] = "done"
                 => response[c] = PermissionDenied(ErrSqlType(KW_UPDATE, <<KW_SELECT>>))

\* the UPDATE of the scenario was answered
C8_Witness ==
    \E c \in Calls :
        /\ IsQuery(c) /\ Resolved(c)
        /\ PermissionsOf(c) = ScenarioPolicy
        /\ req[c].sql = Q_UpdateOpen
        /\ pc[c] = "done"
        /\ response[c].kind = "permission-denied"
        /\ response[c].error.kind = "sql-type"
        /\ MatchesPattern(T_open_orders, PermissionsOf(c).tablePatterns)

(***************************************************************************)
(* C9                                                                      *)
(***************************************************************************)

\* C9: on a source one of whose allow-lists (allowedSqlTypes, tablePatterns,
\* allowedDatabases) is empty every mysql_query is denied and nothing reaches
\* the database.
C9_EmptyAllowListDeniesAll ==
    \A c \in Calls :
        (/\ IsQuery(c) /\ Resolved(c)
         /\ \/ PermissionsOf(c).allowedSqlTypes = <<>>
            \/ PermissionsOf(c).tablePatterns = <<>>
            \/ PermissionsOf(c).allowedDatabases = <<>>)
        => /\ ~ReachedDatabase(c)
           /\ pc[c] # "executeQuery"
           /\ pc[c] = "done" => response[c].kind = "permission-denied"

\* a statement is being executed on a source whose table and database
\* allow-lists are empty, in the database the caller named
C9_Witness ==
    \E c \in Calls :
        /\ IsQuery(c) /\ Resolved(c)
        /\ PermissionsOf(c).tablePatterns = <<>>
        /\ PermissionsOf(c).allowedDatabases = <<>>
        /\ pc[c] = "awaitExecute"
        /\ sent[c] # <<>>
        /\ local[c].pool.database = DB_secret

(***************************************************************************)
(* C10                                                                     *)
(***************************************************************************)

\* C10: mysql_databases answers with the rows of the server that
\* allowedDatabases matches and no other; mysql_tables reaches the database
\* only when its target database exists and is matched by allowedDatabases,
\* and answers with the rows that tablePatterns matches and, when the caller
\* gave a pattern, that this pattern matches too.
C10_ListingsWithinAllowLists ==
    \A c \in Calls :
        /\ (pc[c] = "done" /\ response[c].kind = "databases")
              => /\ response[c].names =
                        SelectSeq(local[c].rows, LAMBDA db :
                            MatchesPattern(db, PermissionsOf(c).allowedDatabases))
                 /\ \A i \in 1..Len(response[c].names) :
                        MatchesPattern(response[c].names[i],
                                       PermissionsOf(c).allowedDatabases)
        /\ (req[c].name = "mysql_tables" /\ Resolved(c))
              => LET targetDb ==
                         IF Truthy(req[c].database) THEN req[c].database
                         ELSE SOURCE_CONFIGS[local[c].sourceName].connection.database
                 IN  (\/ ~Truthy(targetDb)
                      \/ ~MatchesPattern(targetDb, PermissionsOf(c).allowedDatabases))
                     => /\ ~ReachedDatabase(c)
                        /\ pc[c] # "executeQuery"
                        /\ pc[c] = "done" => response[c].isError
        /\ (pc[c] = "done" /\ response[c].kind = "tables")
              => /\ response[c].names =
                        SelectSeq(local[c].rows, LAMBDA t :
                            /\ MatchesPattern(t, PermissionsOf(c).tablePatterns)
                            /\ Truthy(req[c].pattern) => Minimatch(t, req[c].pattern))
                 /\ \A i \in 1..Len(response[c].names) :
                        MatchesPattern(response[c].names[i],
                                       PermissionsOf(c).tablePatterns)

\* a listing asked for with the pattern * left out the table that
\* tablePatterns does not match
C10_Witness ==
    \E c \in Calls :
        /\ pc[c] = "done"
        /\ response[c].kind = "tables"
        /\ req[c].pattern = Star
        /\ local[c].rows = <<T_open_orders, T_secret_users, T_log_1>>
        /\ response[c].names = <<T_open_orders, T_log_1>>

(***************************************************************************)
(* C11                                                                     *)
(***************************************************************************)

\* the names of the configured sources, as the deployment lists them
ConfiguredNames == {N_prod, N_star, N_rw, N_locked}

\* the call is of a tool that takes a source and names one that is not
\* configured
NamesUnknownSource(c) ==
    /\ req[c].name \in ToolsWithSource
    /\ req[c].source # Undefined
    /\ \E i \in 1..Len(req[c].source) : ~IsSpace(req[c].source[i])
    /\ req[c].source \notin ConfiguredNames

\* what an invocation can see of the server besides its own arguments
ServerState == <<process, shutdown, SOURCE_CONFIGS, DEFAULT_SOURCE, POOLS, created>>

SuccessKinds ==
    {"query-ok", "databases", "tables", "describe", "sources", "permissions"}

\* the payloads the handler returns with isError
ErrorKinds ==
    {"tool-execution-error", "permission-denied", "no-database", "query-failed",
     "list-error", "describe-error"}

\* the call stands in a synchronous stretch of the handler
Synchronous(c) ==
    pc[c] \in {"resolve", "classify", "extract", "checkRef", "targetDb", "describe",
               "executeQuery"}

\* the call awaits the driver
Awaiting(c) == pc[c] \in {"awaitConnection", "awaitExecute"}

\* the call can go on: it holds the thread in a synchronous stretch, and the
\* thread is free for its resumption when it awaits the driver
CanGoOn(c) ==
    \/ Synchronous(c) /\ running = c
    \/ Awaiting(c) /\ running = NoCall /\ local[c].pool # NoPool
    \/ pc[c] = "done"

\* C12: every invocation, whatever its tool name and arguments, goes on
\* until it returns, and what it returns is a success payload or an isError
\* payload with a message: an unknown tool, an unknown source and an sql that
\* is no string give the tool-execution error, a refusal the permission
\* error, a failure of the driver at getConnection, execute or release the
\* error of the tool; no invocation ends the process.
C12_StructuredResponse ==
    /\ process = "exited" => \A c \in Calls : pc[c] = "idle"
    /\ \A c \in Calls :
        /\ pc[c] \notin {"idle", "returned"} => CanGoOn(c)
        /\ pc[c] = "done" =>
            /\ response[c].kind \in SuccessKinds \cup ErrorKinds
            /\ response[c].isError <=> response[c].kind \in ErrorKinds
            /\ response[c].kind \in ErrorKinds \ {"no-database"}
                  => response[c].error.kind \in
                        {"unknown-tool", "unknown-source", "type-error", "driver",
                         "multi-statement", "sql-type", "read-only", "database",
                         "table"}
            /\ req[c].name \notin ToolsWithSource \cup {"mysql_sources"}
                  => response[c] =
                        [kind |-> "tool-execution-error", isError |-> TRUE,
                         error |-> [kind |-> "unknown-tool", name |-> req[c].name]]
            /\ (req[c].name = "mysql_query" /\ req[c].sql \in NonTexts /\ Resolved(c))
                  => /\ response[c] =
                            [kind |-> "tool-execution-error", isError |-> TRUE,
                             error |-> [kind |-> "type-error"]]
                     /\ ~ReachedDatabase(c)
            /\ local[c].connection = "release-failed"
                  => response[c].isError /\ response[c].error.kind = "driver"

\* connection.release() threw after the statement of a query had run, and
\* the call answered with the error
C12_Witness ==
    \E c \in Calls :
        /\ pc[c] = "done"
        /\ req[c].name = "mysql_query"
        /\ local[c].connection = "release-failed"
        /\ response[c].kind = "query-failed"
        /\ response[c].error = [kind |-> "driver", at |-> "release"]

(***************************************************************************)
(* C13                                                                     *)
(***************************************************************************)

\* the cache key a call asks getPool for
KeyOf(c) ==
    <<local[c].sourceName,
      IF Truthy(local[c].execDatabase) THEN local[c].execDatabase
      ELSE IF Truthy(SOURCE_CONFIGS[local[c].sourceName].connection.database)
      THEN SOURCE_CONFIGS[local[c].sourceName].connection.database
      ELSE <<>> >>

\* C13: however invocations handled at once and the self-test of startup
\* interleave, mysql.createPool is called at most once for a key (source
\* name, effective database), the cache holds the pool made for each key,
\* and every invocation asking for a key is given that pool.
C13_OnePoolPerKey ==
    /\ \A i \in 1..Len(created), j \in 1..Len(created) :
          created[i].key = created[j].key => i = j
    /\ DOMAIN POOLS = {created[i].key : i \in 1..Len(created)}
    /\ \A i \in 1..Len(created) : POOLS[created[i].key].id = i
    /\ \A c \in DOMAIN pc :
          local[c].pool # NoPool =>
              /\ KeyOf(c) \in DOMAIN POOLS
              /\ local[c].pool = POOLS[KeyOf(c)]
    /\ \A c \in DOMAIN pc, d \in DOMAIN pc :
          (local[c].pool # NoPool /\ local[d].pool # NoPool /\ KeyOf(c) = KeyOf(d))
              => local[c].pool.id = local[d].pool.id

\* two invocations in progress at once, one naming the database and one
\* not, hold the one pool of their key, which one of them created
C13_Witness ==
    \E c \in DOMAIN pc, d \in DOMAIN pc :
        /\ c # d
        /\ pc[c] \in {"awaitConnection", "awaitExecute"}
        /\ pc[d] \in {"awaitConnection", "awaitExecute"}
        /\ req[c].database # req[d].database
        /\ local[c].pool = local[d].pool
        /\ created[local[c].pool.id].by = c

(***************************************************************************)
(* C14                                                                     *)
(***************************************************************************)

\* C14: once the SIGINT handler has started, the cache gets no new pool.
C14_NoPoolAfterShutdownBegan ==
    shutdown.phase # "none" => Len(created) = shutdown.cached

\* a pool was created by an invocation that arrived while the handler was
\* awaiting pool.end()
C14_Witness ==
    /\ shutdown.phase = "awaitEnd"
    /\ Len(created) > shutdown.cached
    /\ created[Len(created)].by # NoCall

(***************************************************************************)
(* C15                                                                     *)
(***************************************************************************)

\* C15: when the SIGINT handler calls process.exit, end() has been called on
\* every pool of the cache and has completed, the pools included that
\* invocations put into the cache while the handler was at work.
C15_PoolsEndedAtExit ==
    shutdown.phase = "exited" =>
        /\ process = "exited"
        /\ \A i \in 1..Len(created) : i \in shutdown.ended
        /\ \A k \in DOMAIN POOLS : POOLS[k].id \in shutdown.ended

\* the handler called exit after ending a pool that was created while it was
\* at work, an invocation being in progress
C15_Witness ==
    /\ shutdown.phase = "exited"
    /\ Len(created) > shutdown.cached
    /\ shutdown.cached > 0
    /\ \E c \in DOMAIN pc : pc[c] \in {"awaitConnection", "awaitExecute"}

(***************************************************************************)
(* C16                                                                     *)
(***************************************************************************)

SourcesLoaded ==
    probe.fn = "loadSourceConfigs" /\ probe.applied /\ probe.out.ok

\* the raw source definitions of the file and of MYSQL_SOURCES
FileSources ==
    IF probe.fileConfig.exists THEN probe.fileConfig.sources ELSE <<>>

InlineSources ==
    IF probe.rawSources.kind = "object" THEN probe.rawSources.entries ELSE <<>>

InBoth == NamesOf(FileSources) \cap NamesOf(InlineSources)

\* what startup makes of one raw definition when it is the only one configured
LoadedAlone(name, definition) ==
    LoadSourceConfigs([exists |-> FALSE, sources |-> <<>>],
                      [kind |-> "object",
                       entries |-> <<[name |-> name, value |-> definition]>>]).sources[name]

\* the raw fields a definition gives for its connection and for its policy
RawConnectionOf(definition) ==
    IF definition.connection.type = "object" THEN definition.connection.fields
    ELSE definition.flat

RawOf(definition, field) ==
    IF field \in ConnectionFields THEN RawConnectionOf(definition)[field]
    ELSE definition.permissions.fields[field]

\* the definition gives the field, with the type of the field
Gives(definition, field) ==
    /\ field \in PermissionFields => definition.permissions.type = "object"
    /\ CASE field \in TextFields -> RawOf(definition, field).type = "string"
         [] field \in NumberFields ->
               \/ RawOf(definition, field).type = "number"
               \/ /\ RawOf(definition, field).type = "string"
                  /\ IsNumeric(RawOf(definition, field).text)
         [] field \in BooleanFields \cup FlagFields ->
               RawOf(definition, field).type = "boolean"
         [] field \in ListFields ->
               /\ RawOf(definition, field).type = "array"
               /\ \A i \in 1..Len(RawOf(definition, field).items) :
                     RawOf(definition, field).items[i].type = "string"

\* the value the definition gives for the field, as the configuration holds it
Given(definition, field) ==
    FieldValue(field, GetField(field, RawOf(definition, field)))

\* the field of a loaded source and of the base
Configured(name, field) ==
    IF field \in ConnectionFields THEN SOURCE_CONFIGS[name].connection[field]
    ELSE SOURCE_CONFIGS[name].permissions[field]

BaseOf(field) ==
    IF field \in ConnectionFields THEN BaseConnection[field] ELSE BasePermissions[field]

AllFields == ConnectionFields \cup PermissionFields

(***************************************************************************)
(* C17                                                                     *)
(***************************************************************************)

\* C17: after a successful load the sources are those named by the file or
\* by MYSQL_SOURCES; a source named by both is what its MYSQL_SOURCES
\* definition alone would give, whatever the file says of it, and a source
\* named by one side only is what that definition alone gives.
C17_InlineReplacesFileDefinition ==
    SourcesLoaded /\ FileSources \o InlineSources # <<>> =>
        /\ DOMAIN SOURCE_CONFIGS = NamesOf(FileSources) \cup NamesOf(InlineSources)
        /\ \A name \in NamesOf(InlineSources) :
              SOURCE_CONFIGS[name] = LoadedAlone(name, ValueIn(InlineSources, name))
        /\ \A name \in NamesOf(FileSources) \ NamesOf(InlineSources) :
              SOURCE_CONFIGS[name] = LoadedAlone(name, ValueIn(FileSources, name))

\* the file gives every field of a source and MYSQL_SOURCES defines the same
\* source by a few fields, another source being defined by the file only
C17_Witness ==
    /\ SourcesLoaded
    /\ N_rw \in InBoth
    /\ ValueIn(FileSources, N_rw) = D_full
    /\ ValueIn(InlineSources, N_rw) = D_partial
    /\ N_default \in NamesOf(FileSources) \ NamesOf(InlineSources)
    /\ ValueIn(FileSources, N_default) = D_nested

(***************************************************************************)
(* C18                                                                     *)
(***************************************************************************)

\* C18 as stated: a field of a source defined by both sides is the value the
\* MYSQL_SOURCES definition gives, else the value the file definition gives,
\* else the base value.
C18_FallsBackToFile ==
    SourcesLoaded =>
        \A name \in InBoth, field \in AllFields :
            Configured(name, field) =
                IF Gives(ValueIn(InlineSources, name), field)
                THEN Given(ValueIn(InlineSources, name), field)
                ELSE IF Gives(ValueIn(FileSources, name), field)
                THEN Given(ValueIn(FileSources, name), field)
                ELSE BaseOf(field)

\* C18: a field of a source defined by both sides is the value the
\* MYSQL_SOURCES definition gives, else the base value; what the file
\* definition gives for the field is never used.
C18_FallsBackToBase ==
    SourcesLoaded =>
        \A name \in InBoth, field \in AllFields :
            Configured(name, field) =
                IF Gives(ValueIn(InlineSources, name), field)
                THEN Given(ValueIn(InlineSources, name), field)
                ELSE BaseOf(field)

\* the file gives a user for a source, MYSQL_SOURCES defines the source
\* without one, and the loaded source has the user of the base
C18_Witness ==
    /\ SourcesLoaded
    /\ \E name \in InBoth :
          /\ Gives(ValueIn(FileSources, name), "user")
          /\ ~Gives(ValueIn(InlineSources, name), "user")
          /\ Gives(ValueIn(InlineSources, name), "host")
          /\ Given(ValueIn(FileSources, name), "user") # BaseOf("user")
          /\ Configured(name, "user") = BaseOf("user")
          /\ Configured(name, "host") = Given(ValueIn(InlineSources, name), "host")

(***************************************************************************)
(* C19                                                                     *)
(***************************************************************************)

\* the definition a loaded source was built from
MergedDefinition(name) ==
    IF name \in NamesOf(InlineSources) THEN ValueIn(InlineSources, name)
    ELSE ValueIn(FileSources, name)

\* C19: every connection field and every policy field of a loaded source is
\* the value its definition gives for that field, or the base value of that
\* field when the definition gives none of the right type, each field by
\* itself.
C19_FieldByField ==
    SourcesLoaded /\ FileSources \o InlineSources # <<>> =>
        \A name \in DOMAIN SOURCE_CONFIGS, field \in AllFields :
            Configured(name, field) =
                IF Gives(MergedDefinition(name), field)
                THEN Given(MergedDefinition(name), field)
                ELSE BaseOf(field)

\* a loaded source has the host and the port of its definition beside the
\* user of the base, and readOnly of its definition beside the statement
\* types of the base
C19_Witness ==
    /\ SourcesLoaded
    /\ \E name \in DOMAIN SOURCE_CONFIGS :
          /\ name \in NamesOf(FileSources) \cup NamesOf(InlineSources)
          /\ MergedDefinition(name) = D_partial
          /\ Configured(name, "host") = H_db2
          /\ Configured(name, "port") = 3308
          /\ Configured(name, "host") # BaseOf("host")
          /\ Configured(name, "user") = BaseOf("user")
          /\ Configured(name, "readOnly") = FALSE
          /\ BaseOf("readOnly") = TRUE
          /\ Configured(name, "allowedSqlTypes") = BaseOf("allowedSqlTypes")

(***************************************************************************)
(* C20                                                                     *)
(***************************************************************************)

\* the one source startup synthesizes
SynthesizedDefault ==
    N_default :> [connection |-> BaseConnection, permissions |-> BasePermissions]

\* C20: after a successful load, when the file defines no source and
\* MYSQL_SOURCES is not set the sources are the one source default with the
\* base connection and the base policy; in every other case the sources are
\* those named by the file or by MYSQL_SOURCES and no other.
C20_DefaultOnlyWhenNothingConfigured ==
    SourcesLoaded =>
        IF FileSources = <<>> /\ probe.rawSources.kind = "unset"
        THEN SOURCE_CONFIGS = SynthesizedDefault
        ELSE DOMAIN SOURCE_CONFIGS = NamesOf(FileSources) \cup NamesOf(InlineSources)

\* MYSQL_SOURCES is set to an object without a source, no file defines one,
\* and startup has loaded the synthesized source default
C20_Witness ==
    /\ SourcesLoaded
    /\ probe.rawSources.kind = "object"
    /\ probe.rawSources.entries = <<>>
    /\ FileSources = <<>>
    /\ SOURCE_CONFIGS = SynthesizedDefault

(***************************************************************************)
(* C21                                                                     *)
(***************************************************************************)

\* MYSQL_SOURCES holds an object without a source and the file defines none
EmptyOverride ==
    /\ probe.rawSources.kind = "object"
    /\ probe.rawSources.entries = <<>>
    /\ FileSources = <<>>

\* MYSQL_SOURCES is no JSON or no object, or a source definition is no object
Malformed ==
    \/ probe.rawSources.kind \in {"malformed", "nonobject"}
    \/ \E i \in 1..Len(FileSources) :
          /\ FileSources[i].name \notin NamesOf(InlineSources)
          /\ FileSources[i].value.type # "object"
    \/ \E i \in 1..Len(InlineSources) : InlineSources[i].value.type # "object"

\* C21: a startup whose MYSQL_SOURCES is an empty object leaving no source,
\* is no JSON or no object, or whose merged sources hold a definition that
\* is no object, fails while the module is loaded and never serves.
C21_BadConfigurationIsFatal ==
    probe.fn = "loadSourceConfigs" /\ (EmptyOverride \/ Malformed) =>
        process \in {"loading", "failed"}

\* the part of C21 the code keeps: malformed values are fatal
C21_MalformedIsFatal ==
    probe.fn = "loadSourceConfigs" /\ Malformed => process \in {"loading", "failed"}

\* the server serves after a startup with MYSQL_SOURCES an empty object
C21_Witness ==
    /\ EmptyOverride
    /\ process = "serving"
    /\ DOMAIN SOURCE_CONFIGS = {N_default}

(***************************************************************************)
(* C22                                                                     *)
(***************************************************************************)

\* the default source name by the stated precedence
DefaultByPrecedence ==
    IF Truthy(probe.DEFAULT_SOURCE) THEN probe.DEFAULT_SOURCE
    ELSE IF probe.fileConfig.exists /\ Truthy(probe.fileConfig.defaultSource)
    THEN probe.fileConfig.defaultSource
    ELSE probe.out.names[1]

\* C22: once the module constants are set the default source name is
\* DEFAULT_SOURCE of the environment, else defaultSource of the file, else
\* the first configured source name, and a server whose default source name
\* is not configured never serves.
C22_DefaultSourceResolvedAndChecked ==
    process \in {"starting", "serving", "exited"} =>
        /\ DEFAULT_SOURCE = DefaultByPrecedence
        /\ process = "serving" => DEFAULT_SOURCE \in DOMAIN SOURCE_CONFIGS

\* the part of C22 the code keeps: the precedence of the three origins, and
\* the failure of the connection test of an unknown default source
C22_DefaultSourcePrecedence ==
    process \in {"starting", "serving", "exited"} =>
        /\ DEFAULT_SOURCE = DefaultByPrecedence
        /\ (process = "serving" /\ DEFAULT_SOURCE \notin DOMAIN SOURCE_CONFIGS) =>
              \A i \in 1..Len(created) : created[i].key[1] # DEFAULT_SOURCE

\* the server serves with a default source name, taken from the environment
\* over the one of the file, that is not configured
C22_Witness ==
    /\ process = "serving"
    /\ probe.DEFAULT_SOURCE = N_nosuch
    /\ probe.fileConfig.defaultSource = N_default
    /\ DEFAULT_SOURCE = N_nosuch
    /\ N_nosuch \notin DOMAIN SOURCE_CONFIGS

(***************************************************************************)
(* C23                                                                     *)
(***************************************************************************)

\* the pattern alone matches the text: it is the star, or it matches as a
\* glob without regard to the case of letters
MatchesAlone(text, pattern) == MatchesPattern(text, <<pattern>>)

\* C23: matchesPattern is true exactly when one pattern of the list alone
\* matches the text; with the star in the list it is true, with no pattern
\* it is false, and putting a pattern into the list never turns a true
\* result into a false one.
C23_AnyPatternMatches ==
    /\ [](probe.fn = "matchesPattern" /\ probe.applied =>
            /\ probe.out = (\E i \in 1..Len(probe.patterns) :
                               MatchesAlone(probe.text, probe.patterns[i]))
            /\ (\E i \in 1..Len(probe.patterns) : probe.patterns[i] = Star) => probe.out
            /\ probe.patterns = <<>> => ~probe.out
            /\ MatchesAlone(T_OPEN_X, P_open) /\ ~MatchesAlone(T_secret_users, P_open))
    /\ [][probe.applied /\ probe.out => probe'.out]_vars

\* a text that no pattern of the list matched is matched once the star is
\* added, and one matched by a pattern stays matched when one that does not
\* match it is put in front
C23_Witness ==
    /\ probe.fn = "matchesPattern"
    /\ probe.applied
    /\ probe.text = T_OPEN_X
    /\ probe.patterns = <<P_users, P_open, P_log>>
    /\ probe.out

(***************************************************************************)
(* C24                                                                     *)
(***************************************************************************)

\* the keywords the text, trimmed, begins with, the case of letters set aside
KeywordsBeginning(sql) ==
    {i \in 1..Len(SqlTypeKeywords) : MatchesWordAt(Trim(sql), 1, SqlTypeKeywords[i])}

\* the statement type validateSqlType reported, in its result or in its denial
ReportedType ==
    IF probe.out.valid THEN probe.out.sqlType ELSE probe.out.error.sqlType

\* C24: the statement type validateSqlType reports for a text that, trimmed,
\* begins with a recognized keyword in any case of letters is that keyword in
\* upper case, and for every other text it is UNKNOWN.
C24_KeywordReportedInUpperCase ==
    probe.fn = "validateSqlType" /\ probe.applied =>
        /\ Cardinality(KeywordsBeginning(probe.sql)) <= 1
        /\ \A i \in KeywordsBeginning(probe.sql) : ReportedType = SqlTypeKeywords[i]
        /\ KeywordsBeginning(probe.sql) = {} => ReportedType = UNKNOWN

\* a text of white space, describe in letters of alternating case and a
\* letter glued to it was reported as DESCRIBE
C24_Witness ==
    /\ probe.fn = "validateSqlType"
    /\ probe.applied
    /\ probe.sql = <<" ", "\t", "\n", "d", "E", "s", "C", "r", "I", "b", "E", "d">>
    /\ probe.out.valid
    /\ probe.out.sqlType = KW_DESCRIBE

(***************************************************************************)
(* C25                                                                     *)
(***************************************************************************)

DecisionOf(c) ==
    IF response[c].kind = "permission-denied" THEN Denied(response[c].error)
    ELSE Forwarded

\* the handler has decided: it has answered, or it has called executeQuery
Decided(c) ==
    /\ req[c].name = "mysql_query"
    /\ pc[c] \in {"executeQuery", "awaitConnection", "awaitExecute", "done"}

\* no reference of the text is qualified by a database, and both servers
\* extract the same table names from it
Unqualified(sql) ==
    /\ \A i \in 1..Len(ExtractedFrom[sql]) : ExtractedFrom[sql][i].database = Undefined
    /\ ExtractTableNames(sql) =
          [i \in 1..Len(ExtractedFrom[sql]) |-> ExtractedFrom[sql][i].table]

\* the database the multi-source server falls back on cannot be refused: the
\* invocation names a database, or DB_NAME is not set, or it is allowed
FallbackHarmless(c) ==
    \/ Truthy(req[c].database)
    \/ ~Truthy(SOURCE_CONFIGS[N_default].connection.database)
    \/ MatchesPattern(SOURCE_CONFIGS[N_default].connection.database,
                      SOURCE_CONFIGS[N_default].permissions.allowedDatabases)

\* C26 as stated: on the configuration of the environment alone the
\* multi-source server permits and denies every mysql_query invocation as
\* the single-source server does, with the same reason.
C26_SameDecision ==
    probe.fn = "legacy" =>
        \A c \in Calls :
            Decided(c) =>
                DecisionOf(c) = LegacyMysqlQuery(req[c].sql, req[c].database, probe.env)

\* what remains of it: the servers agree, reason included, on every
\* invocation whose references are not qualified and whose fallback on
\* DB_NAME cannot be refused.
C26_SameDecisionUnqualified ==
    probe.fn = "legacy" =>
        \A c \in Calls :
            Decided(c) /\ Unqualified(req[c].sql) /\ FallbackHarmless(c) =>
                DecisionOf(c) = LegacyMysqlQuery(req[c].sql, req[c].database, probe.env)

\* the servers part: the single-source server forwards a text whose
\* reference is qualified by a database that is not allowed, the
\* multi-source server refuses that database
C26_Witness ==
    /\ probe.fn = "legacy"
    /\ \E c \in Calls :
          /\ pc[c] = "done"
          /\ req[c].sql = Q_QualifiedSecret
          /\ ~Truthy(req[c].database)
          /\ DecisionOf(c) = Denied(ErrDatabase(DB_secret))
          /\ LegacyMysqlQuery(req[c].sql, req[c].database, probe.env) = Forwarded


(***************************************************************************)
(* C27                                                                     *)
(***************************************************************************)

\* the call handed its mysql_query statement to a connection of its pool
ForwardedQuery(c) == req[c].name = "mysql_query" /\ sent[c] # <<>>

\* the database the pool of the connection is bound to is allowed to the
\* source of the call; a pool bound to no database passes
BoundDatabaseAllowed(c) ==
    Truthy(sent[c][1].pool.database) =>
        MatchesPattern(sent[c][1].pool.database, PermissionsOf(c).allowedDatabases)

\* C27: every forwarded mysql_query statement runs on a pool whose bound
\* database, the database argument or else the default of the source, is
\* matched by allowedDatabases of the source, whether or not a table
\* reference was extracted from the statement.
C27_BoundDatabaseAllowed ==
    \A c \in Calls : ForwardedQuery(c) => BoundDatabaseAllowed(c)

\* what the loop over the references does secure: a forwarded statement
\* with a reference that no database qualifies runs on an allowed database
C27_BoundDatabaseAllowedByReference ==
    \A c \in Calls :
        /\ ForwardedQuery(c)
        /\ \E i \in 1..Len(local[c].tableRefs) :
              local[c].tableRefs[i].database = Undefined
        => BoundDatabaseAllowed(c)

\* a statement without table reference, sent with a database argument the
\* source does not allow, was executed on a pool bound to that database
C27_Witness ==
    \E c \in Calls :
        /\ ForwardedQuery(c)
        /\ req[c].sql = Q_Select1
        /\ local[c].sourceName = N_rw
        /\ local[c].tableRefs = <<>>
        /\ req[c].database = DB_secret
        /\ sent[c][1].pool.database = DB_secret
        /\ ~MatchesPattern(DB_secret, PermissionsOf(c).allowedDatabases)
        /\ pc[c] = "done"
        /\ response[c].kind = "query-ok"


(***************************************************************************)
(* C28                                                                     *)
(***************************************************************************)

\* the statement of the call begins with none of the fourteen keywords
UnknownStatement(c) ==
    /\ req[c].name = "mysql_query"
    /\ DetectSqlType(ToUpperCase(Trim(req[c].sql))) = UNKNOWN

\* the call was refused before executeQuery, or has not got there
RefusedBeforeExecute(c) ==
    /\ ~ReachedDatabase(c)
    /\ pc[c] = "done" => response[c].kind = "permission-denied"

\* the allow-list of the source admits a type it does not know: it holds the
\* wildcard, or the word UNKNOWN itself
AdmitsUnknown(permissionConfig) ==
    /\ \/ ListIncludes(permissionConfig.allowedSqlTypes, Star)
       \/ ListIncludes(permissionConfig.allowedSqlTypes, UNKNOWN)
    /\ ~permissionConfig.readOnly

\* C28 as stated: a statement whose type is UNKNOWN is denied under every
\* policy and never reaches the database.
C28_UnknownAlwaysDenied ==
    \A c \in Calls : UnknownStatement(c) => RefusedBeforeExecute(c)

\* C28: a statement whose type is UNKNOWN is denied and never reaches the
\* database under every policy that is read-only or whose allowedSqlTypes
\* holds neither the wildcard nor the word UNKNOWN.
C28_UnknownDeniedUnlessAdmitted ==
    \A c \in Calls :
        UnknownStatement(c) /\ pc[c] # "idle" /\ pc[c] # "resolve"
            /\ ~AdmitsUnknown(PermissionsOf(c))
        => RefusedBeforeExecute(c)

\* a GRANT statement was refused by a read-only policy whose allow-list is
\* the wildcard
C28_Witness ==
    \E c \in Calls :
        /\ pc[c] = "done"
        /\ UnknownStatement(c)
        /\ req[c].sql = Q_Grant
        /\ ListIncludes(PermissionsOf(c).allowedSqlTypes, Star)
        /\ PermissionsOf(c).readOnly
        /\ response[c] = PermissionDenied(ErrReadOnly)
        /\ ~ReachedDatabase(c)


(***************************************************************************)
(* C29                                                                     *)
(***************************************************************************)

\* the references the claim expects of a clause whose identifier has these
\* segments: the table, the database and the table, or none
ExpectedOfSegments(segments) ==
    IF Len(segments) = 1
    THEN <<[database |-> Undefined, table |-> segments[1]]>>
    ELSE IF Len(segments) = 2
    THEN <<[database |-> segments[1], table |-> segments[2]]>>
    ELSE <<>>

\* C29: an identifier of more than two segments, or of none, after a clause
\* keyword gives no reference; an identifier of one segment gives a reference
\* to the table alone, one of two segments a reference to database and table.
C29_ReferenceBySegments ==
    probe.fn = "extractTableRefs" =>
        \A n \in 1..Len(probe.calls) :
            \A segments \in SegmentLists :
                probe.calls[n].sql = FromClause(segments)
                    => probe.calls[n].refs = ExpectedOfSegments(segments)

\* what extraction does: it reads at most two segments of the identifier, and
\* gives the reference of those
C29_ReferenceByFirstTwoSegments ==
    probe.fn = "extractTableRefs" =>
        \A n \in 1..Len(probe.calls) :
            \A segments \in SegmentLists :
                probe.calls[n].sql = FromClause(segments)
                    => probe.calls[n].refs =
                          ExpectedOfSegments(
                              IF Len(segments) > 2 THEN SubSeq(segments, 1, 2)
                              ELSE segments)

\* FROM a.b.c was extracted and gave the reference to table b of database a
C29_Witness ==
    /\ probe.fn = "extractTableRefs"
    /\ \E n \in 1..Len(probe.calls) :
          /\ probe.calls[n].sql = Q_ThreeSegments
          /\ probe.calls[n].refs = <<[database |-> <<"a">>, table |-> <<"b">>]>>


(***************************************************************************)
(* C30                                                                     *)
(***************************************************************************)

\* connection.release() has been called on the connection of the call; it
\* may have thrown
ReleaseCalled(c) == local[c].connection \in {"released", "release-failed"}

\* the steps of the connection of a call: acquired from none, released from
\* held, and dropped with the frame of the call once released
ConnectionStep(c) ==
    \/ local'[c].connection = local[c].connection
    \/ local[c].connection = "none" /\ local'[c].connection = "held"
    \/ local[c].connection = "held" /\ ReleaseCalled(c)'
    \/ /\ local[c].connection # "held"
       /\ pc'[c] = "returned"
       /\ local'[c].connection = "none"

\* C30: every connection executeQuery acquires is released exactly once
\* before executeQuery returns, whether execute resolves, rejects, or the
\* shaping of the result throws; no invocation finishes holding a connection,
\* and no connection is released that was not acquired.
C30_ReleasedExactlyOnce ==
    /\ [](\A c \in Calls :
            /\ pc[c] \in {"done", "returned", "idle"} => local[c].connection # "held"
            /\ ReleaseCalled(c) => sent[c] # <<>>)
    /\ [][\A c \in Calls : ConnectionStep(c)]_vars

\* an execute that rejected left the call answered with the failure and its
\* connection released
C30_Witness ==
    \E c \in Calls :
        /\ pc[c] = "done"
        /\ req[c].name = "mysql_query"
        /\ sent[c] # <<>>
        /\ local[c].connection = "released"
        /\ response[c].kind = "query-failed"
        /\ response[c].error = [kind |-> "driver", at |-> "execute"]

=============================================================================
